---- MODULE Spec2Model ----
(***************************************************************************)
(* Transvero: live captioning.  Model of the recognition orchestrator      *)
(* (HybridSpeechRecognitionService), of the streaming transcription client *)
(* (SpeechRecognitionAPIService.startRecognition / stopRecognition) and of *)
(* the batch diarization client (uploadAudio, transcribeWithDiarization),  *)
(* of the LiveSession page's stop handling and of the AudioRecorder with   *)
(* its WAV encoder.                                                        *)
(*                                                                         *)
(* Texts are sequences of words; String.includes is containment of a       *)
(* contiguous run of words, case-sensitive as in the source.               *)
(***************************************************************************)
EXTENDS Integers, Sequences, FiniteSets, TLC

(***************************************************************************)
(* Bounds of the model.                                                    *)
(***************************************************************************)
\* number of startRecognition calls made on the orchestrator in one run
MaxStarts == 2
\* number of audio frames the capture graph delivers in one run
MaxFrames == 2
\* number of resetFallback calls in one run
MaxResets == 1
\* number of statuses the service reports for a job, the terminal one included
MaxPolls == 4
\* number of status requests of a job that fail or carry no status
MaxBadPolls == 1
\* number of uploadAudio calls in one run
MaxUploads == 2
\* largest speaker index whose label is compared with that of the index + 26
MaxSpeakerIndex == 60
\* samples are the multiples of 1 / SampleScale
SampleScale == 1000
\* number of chunks the capture graph or the native recorder delivers in one run
MaxChunks == 2
\* number of samples of a chunk
MaxChunkLen == 2
\* segments of a recognition session, and result events of a run
MaxSegments == 2

MaxResultEvents == 4

Ids == 1..MaxStarts

(***************************************************************************)
(* Texts.                                                                  *)
(***************************************************************************)
\* String.prototype.includes on word sequences
Includes(text, pat) ==
  \E k \in 0..(Len(text) - Len(pat)) : SubSeq(text, k + 1, k + Len(pat)) = pat

MsgAlreadyInProgress == <<"Recording", "is", "already", "in", "progress.">>
MsgMicDenied == <<"Microphone", "access", "denied.">>
MsgNoMic == <<"No", "microphone", "found.">>
MsgNoToken == <<"No", "token", "received", "from", "AssemblyAI", "API">>
MsgInvalidKey == <<"Invalid", "AssemblyAI", "API", "key.">>
MsgConfig ==
  <<"Unable", "to", "connect", "to", "speech", "recognition", "service.",
    "Firebase", "Functions", "REACT_APP_ASSEMBLYAI_API_KEY">>
MsgBlockedNoBrowser ==
  <<"AssemblyAI", "API", "is", "blocked", "and", "browser", "Web", "Speech",
    "API", "is", "not", "available.">>
MsgBrowserUnsupported(brave) ==
  IF brave
    THEN <<"Speech", "recognition", "is", "not", "available", "in", "Brave.">>
    ELSE <<"Speech", "recognition", "is", "not", "supported", "in", "this", "browser.">>
MsgConnectionError(brave) ==
  IF brave
    THEN <<"WebSocket", "connection", "error", "in", "Brave.">>
    ELSE <<"Connection", "error.", "Please", "check", "your", "internet",
           "connection", "and", "API", "key.">>

\* messages of the exceptions the platform raises
GumErrors ==
  { [name |-> "NotAllowedError", message |-> <<"Permission", "denied">>],
    [name |-> "NotFoundError", message |-> <<"Requested", "device", "not", "found">>] }
\* TypeError of a fetch that could not reach the host
FetchFailures == { <<"Failed", "to", "fetch">> }
HttpErrorStatuses == { "401" }

HttpErrorMessage(status) == <<"API", "error", "(", status, ")", ":", "rejected">>
NetworkWrapped(msg) ==
  <<"Network", "error", "connecting", "to", "AssemblyAI.", "Error:">> \o msg

(***************************************************************************)
(* State.                                                                  *)
(***************************************************************************)
VARIABLES
  \* HybridSpeechRecognitionService
  useAPI, apiFailed, currentService,
  \* SpeechRecognitionAPIService
  isRecording, mediaStream, audioContext, socket,
  onResultCallback, onErrorCallback, language,
  \* the objects the client creates, named by the start call that made them
  trackLive, ctxOpen, sockState, sockOut, sessionTerminated,
  \* the start calls
  route, pc, failKind, tokenTrace, token,
  \* what the caller's callbacks of each start call received
  errs, startCount, endCount,
  \* what the wrapped error handler of each start call received
  apiErrs, fbBy,
  \* SpeechRecognitionService (on-device recognizer), as the orchestrator sees it
  browserLang, browserCalls, browserActive,
  \* environment
  isBrave, apiKeySet, browserSupported,
  \* counters of the run
  frameNo, resets,
  \* what the caller did last: whether the last call to the streaming client
  \* was stopRecognition, and the last argument of hybrid.setLanguage
  afterStop, requested,
  \* transcribeWithDiarization: the call, and the remote job it polls
  isProcessing, dpc, dRequest, polls, badPolls, polled, dOutcome,
  script, served, jobPayload, jobError,
  \* uploadAudio: the call
  upc, uSize, uTrace, uOutcome, uploads,
  \* LiveSession page: handleStopRecording and the language selector
  lpc, uiLanguage, liveArgs, uiStage, stageError, uiError,
  \* AudioRecorder: the environment, the instance's fields, the calls
  recEnv, hasAudioContext, ctxRate, rpc, recStream, mediaRecorder, recContext, scriptProcessor,
  sourceNode, audioChunks, audioBuffer, recIsRecording, useWebAudio, mimeType,
  sampleRate, delivered, recOutcome, settleCount,
  \* AudioRecorder used again: the second startRecording, and the stream and
  \* context whose references the second start overwrote
  rpc2, oldStream, oldContext,
  \* SpeechRecognitionService on its own: the start calls, the host's
  \* recognizer, what the caller's callbacks received
  nativePc, nativeTrace, nativeErrs, recognition, handlers, results,
  resultEvents, transcripts, hasMediaDevices

uploadVars == <<upc, uSize, uTrace, uOutcome, uploads>>

liveVars == <<lpc, uiLanguage, liveArgs, uiStage, stageError, uiError>>

recVars ==
  <<recEnv, hasAudioContext, ctxRate, rpc, recStream, mediaRecorder, recContext, scriptProcessor,
    sourceNode, audioChunks, audioBuffer, recIsRecording, useWebAudio, mimeType,
    sampleRate, delivered, recOutcome, settleCount, rpc2, oldStream, oldContext>>

nativeVars ==
  <<nativePc, nativeTrace, nativeErrs, recognition, handlers, results,
    resultEvents, transcripts, hasMediaDevices>>

\* what the streaming client, the orchestrator and the poll loop never touch
restVars == <<uploadVars, liveVars, recVars, nativeVars>>

envVars == <<isBrave, apiKeySet, browserSupported>>

vars ==
  <<useAPI, apiFailed, currentService, isRecording, mediaStream, audioContext,
    socket, onResultCallback, onErrorCallback, language, trackLive, ctxOpen,
    sockState, sockOut, sessionTerminated, route, pc, failKind, tokenTrace,
    token, errs,
    startCount, endCount, apiErrs, fbBy, browserLang, browserCalls,
    browserActive, isBrave, apiKeySet, browserSupported, frameNo, resets,
    afterStop, requested,
    isProcessing, dpc, dRequest, polls, badPolls, polled, dOutcome, script,
    served, jobPayload, jobError, restVars>>

diarVars ==
  <<isProcessing, dpc, dRequest, polls, badPolls, polled, dOutcome, script,
    served, jobPayload, jobError>>

streamVars ==
  <<useAPI, apiFailed, currentService, isRecording, mediaStream, audioContext,
    socket, onResultCallback, onErrorCallback, language, trackLive, ctxOpen,
    sockState, sockOut, sessionTerminated, route, pc, failKind, tokenTrace,
    token, errs, startCount, endCount, apiErrs, fbBy, browserLang, browserCalls,
    browserActive, isBrave, apiKeySet, browserSupported, frameNo, resets,
    afterStop, requested>>

\* the state as one value, so that handlers compose as functions
State ==
  [ useAPI |-> useAPI, apiFailed |-> apiFailed, currentService |-> currentService,
    isRecording |-> isRecording, mediaStream |-> mediaStream,
    audioContext |-> audioContext, socket |-> socket,
    onResultCallback |-> onResultCallback, onErrorCallback |-> onErrorCallback,
    language |-> language, trackLive |-> trackLive, ctxOpen |-> ctxOpen,
    sockState |-> sockState, sockOut |-> sockOut,
    sessionTerminated |-> sessionTerminated, route |-> route, pc |-> pc,
    failKind |-> failKind, tokenTrace |-> tokenTrace, token |-> token,
    errs |-> errs, startCount |-> startCount,
    endCount |-> endCount, apiErrs |-> apiErrs,
    fbBy |-> fbBy, browserLang |-> browserLang, browserCalls |-> browserCalls,
    browserActive |-> browserActive, frameNo |-> frameNo, resets |-> resets,
    afterStop |-> afterStop, requested |-> requested ]

Becomes(s) ==
  /\ useAPI' = s.useAPI
  /\ apiFailed' = s.apiFailed
  /\ currentService' = s.currentService
  /\ isRecording' = s.isRecording
  /\ mediaStream' = s.mediaStream
  /\ audioContext' = s.audioContext
  /\ socket' = s.socket
  /\ onResultCallback' = s.onResultCallback
  /\ onErrorCallback' = s.onErrorCallback
  /\ language' = s.language
  /\ trackLive' = s.trackLive
  /\ ctxOpen' = s.ctxOpen
  /\ sockState' = s.sockState
  /\ sockOut' = s.sockOut
  /\ sessionTerminated' = s.sessionTerminated
  /\ route' = s.route
  /\ pc' = s.pc
  /\ failKind' = s.failKind
  /\ tokenTrace' = s.tokenTrace
  /\ token' = s.token
  /\ errs' = s.errs
  /\ startCount' = s.startCount
  /\ endCount' = s.endCount
  /\ apiErrs' = s.apiErrs
  /\ fbBy' = s.fbBy
  /\ browserLang' = s.browserLang
  /\ browserCalls' = s.browserCalls
  /\ browserActive' = s.browserActive
  /\ frameNo' = s.frameNo
  /\ resets' = s.resets
  /\ afterStop' = s.afterStop
  /\ requested' = s.requested
  /\ UNCHANGED envVars
  /\ UNCHANGED diarVars
  /\ UNCHANGED restVars


(***************************************************************************)
(* The platform's WebSocket, as the client uses it.                        *)
(***************************************************************************)
\* socket.send(msg): sockOut[k] lists the writes made to socket k, each with
\* the connection's readyState at the time of the write
SocketSend(s, k, msg) ==
  [s EXCEPT !.sockOut[k] = Append(@, <<msg[1], msg[2], s.sockState[k]>>)]

\* socket.close(): starts the closing handshake; the close event comes later
SocketClose(s, k) ==
  IF s.sockState[k] \in {"CONNECTING", "OPEN"}
    THEN [s EXCEPT !.sockState[k] = "CLOSING"]
    ELSE s

(***************************************************************************)
(* SpeechRecognitionService (on-device), entry point only.                 *)
(***************************************************************************)
\* the caller's onError of start call j
CallerOnError(s, j, text) == [s EXCEPT !.errs[j] = Append(@, text)]

\* browserService.startRecognition(onResult_j, onError_j, onStart_j, onEnd_j)
BrowserStartRecognition(s, j) ==
  IF ~browserSupported
    THEN CallerOnError(s, j, MsgBrowserUnsupported(isBrave))
    ELSE [s EXCEPT !.browserCalls[j] = @ + 1, !.browserActive = TRUE]

\* browserService.stopRecognition() / abortRecognition()
BrowserStopRecognition(s) ==
  IF browserSupported THEN [s EXCEPT !.browserActive = FALSE] ELSE s

(***************************************************************************)
(* HybridSpeechRecognitionService.                                         *)
(***************************************************************************)
\* the heuristic, had it looked for the fetch failure alone
IsNetworkShaped_FetchOnly(text) ==
  Includes(text, <<"Failed", "to", "fetch">>)

\* the substring heuristic of wrappedError
IsNetworkShaped(text) ==
  \/ Includes(text, <<"Network", "error">>)
  \/ Includes(text, <<"Failed", "to", "fetch">>)
  \/ Includes(text, <<"fetch">>)

\* wrappedError of start call j, given to the streaming client as its onError
WrappedError(s, j, text) ==
  LET got == [s EXCEPT !.apiErrs[j] = Append(@, text)] IN
  IF IsNetworkShaped(text)
    THEN LET marked == [got EXCEPT !.apiFailed = TRUE, !.useAPI = FALSE] IN
         IF browserSupported
           THEN BrowserStartRecognition(
                  [marked EXCEPT !.currentService = "browser"], j)
           ELSE CallerOnError(marked, j, MsgBlockedNoBrowser)
    ELSE CallerOnError(got, j, text)

\* the test, had it asked for the configuration alone
PrefersRemote_ConfiguredOnly(s) == TRUE

\* the test "this.useAPI && !this.apiFailed" of startRecognition
PrefersRemote(s) == s.useAPI /\ ~s.apiFailed

GetActiveService(s) == IF s.useAPI /\ ~s.apiFailed THEN "api" ELSE "browser"

\* apiService.isConfigured(): always true
IsConfigured == TRUE

(***************************************************************************)
(* SpeechRecognitionAPIService: the streaming client.                      *)
(***************************************************************************)
LanguageMap(l) ==
  CASE l = "en-US" -> "en"
    [] l = "es-ES" -> "es"
    [] OTHER -> "en"

\* a call of an onError callback the client was given: the orchestrator's
\* wrappedError of start call j, or the caller's own onError of start call j
CallOnError(s, cb, text) ==
  IF cb[1] = "wrapped"
    THEN WrappedError(s, cb[2], text)
    ELSE CallerOnError(s, cb[2], text)

\* this.onErrorCallback(text), guarded by "if (this.onErrorCallback)"
OnErrorCallback(s, text) ==
  IF s.onErrorCallback # <<>>
    THEN CallOnError(s, s.onErrorCallback, text)
    ELSE s

Cleanup(s) ==
  LET a == [s EXCEPT !.isRecording = FALSE]
      b == IF a.mediaStream # 0
             THEN [a EXCEPT !.trackLive[a.mediaStream] = FALSE, !.mediaStream = 0]
             ELSE a
      c == IF b.audioContext # 0
             THEN [b EXCEPT !.ctxOpen[b.audioContext] = FALSE, !.audioContext = 0]
             ELSE b
  IN IF c.socket # 0
       THEN [SocketClose(c, c.socket) EXCEPT !.socket = 0]
       ELSE c

\* stopRecognition, had it closed the connection before writing to it
StopRecognition_CloseFirst(s) ==
  IF s.socket # 0 /\ s.sockState[s.socket] = "OPEN"
    THEN Cleanup(SocketSend(SocketClose(s, s.socket), s.socket, <<"terminate", 0>>))
    ELSE Cleanup(s)

StopRecognition(s) ==
  IF s.socket # 0 /\ s.sockState[s.socket] = "OPEN"
    THEN Cleanup(SocketClose(SocketSend(s, s.socket, <<"terminate", 0>>), s.socket))
    ELSE Cleanup(s)

\* the text the catch block of startRecognition reports for a thrown error
ClassifyStartError(err) ==
  IF err.name = "NotAllowedError" THEN MsgMicDenied
  ELSE IF err.name = "NotFoundError" THEN MsgNoMic
  ELSE IF Includes(err.message, <<"Network", "error">>)
            \/ Includes(err.message, <<"fetch">>)
    THEN IF isBrave
           THEN <<"Network", "error", "in", "Brave", ":", "Error", "details", ":">>
                  \o err.message
           ELSE <<"Network", "error", ":">> \o err.message
  ELSE IF Includes(err.message, <<"Invalid", "API", "key">>)
            \/ Includes(err.message, <<"401">>)
    THEN MsgInvalidKey
  ELSE <<"Error", ":">> \o err.message
         \o (IF isBrave
               THEN <<"If", "this", "persists,", "try", "disabling", "Brave", "Shields">>
               ELSE <<>>)

\* catch (error) of startRecognition, for start call i
StartCatch(s, i, err, kind) ==
  LET told == OnErrorCallback(s, ClassifyStartError(err))
      done == Cleanup(told)
  IN [done EXCEPT !.pc[i] = "failed", !.failKind[i] = kind,
                  !.fbBy = IF told.apiFailed /\ ~s.apiFailed THEN i ELSE @]

\* the error of the token acquisition, had the credential test been left out
TokenFailure_NoCredentialTest(fetchMessage) ==
  [name |-> "Error", message |-> NetworkWrapped(fetchMessage)]

\* the error the token acquisition throws once the direct request has failed
TokenFailure(fetchMessage) ==
  IF ~apiKeySet
    THEN [name |-> "Error", message |-> MsgConfig]
    ELSE [name |-> "Error", message |-> NetworkWrapped(fetchMessage)]

\* "if (!tokenData || !tokenData.token) throw", else new WebSocket(wsUrl)
ConnectWithToken(s, i, from, hasToken) ==
  IF hasToken
    THEN [s EXCEPT !.socket = i, !.sockState[i] = "CONNECTING", !.pc[i] = "sock",
                   !.token[i] = from]
    ELSE StartCatch(s, i, [name |-> "Error", message |-> MsgNoToken], "noToken")

\* startRecognition(onResult_i, onError, onStart_i, onEnd_i), up to its first
\* await; onStart_i and onEnd_i are the callbacks counted by startCount[i] and
\* endCount[i]
ApiStartRecognition(s, i, onError) ==
  IF s.isRecording
    THEN [CallOnError(s, onError, MsgAlreadyInProgress) EXCEPT !.pc[i] = "rejected"]
    ELSE [s EXCEPT !.onResultCallback = i, !.onErrorCallback = onError,
                   !.pc[i] = "gum"]


(***************************************************************************)
(* Initial state: the module-level singleton after construction.           *)
(***************************************************************************)
\* the fields of both services and the objects of the run, before any call
Fresh ==
  /\ apiFailed = FALSE
  /\ useAPI = (IsConfigured /\ ~FALSE)
  /\ currentService = "none"
  /\ isRecording = FALSE
  /\ mediaStream = 0
  /\ audioContext = 0
  /\ socket = 0
  /\ onResultCallback = 0
  /\ onErrorCallback = <<>>
  /\ language = "en"
  /\ trackLive = [i \in Ids |-> FALSE]
  /\ ctxOpen = [i \in Ids |-> FALSE]
  /\ sockState = [i \in Ids |-> "none"]
  /\ sockOut = [i \in Ids |-> <<>>]
  /\ sessionTerminated = {}
  /\ route = [i \in Ids |-> "none"]
  /\ pc = [i \in Ids |-> "idle"]
  /\ failKind = [i \in Ids |-> "none"]
  /\ tokenTrace = [i \in Ids |-> <<>>]
  /\ token = [i \in Ids |-> "none"]
  /\ errs = [i \in Ids |-> <<>>]
  /\ startCount = [i \in Ids |-> 0]
  /\ endCount = [i \in Ids |-> 0]
  /\ apiErrs = [i \in Ids |-> <<>>]
  /\ fbBy = 0
  /\ browserLang = "en-US"
  /\ browserCalls = [i \in Ids |-> 0]
  /\ browserActive = FALSE
  /\ frameNo = 0
  /\ resets = 0
  /\ afterStop = FALSE
  /\ requested = "none"

\* no diarization call made
NoJob ==
  /\ isProcessing = FALSE
  /\ dpc = "idle"
  /\ dRequest = [audio_url |-> "", speaker_labels |-> FALSE,
                  speakers_expected |-> 0, language_code |-> ""]
  /\ polls = 0
  /\ badPolls = 0
  /\ polled = <<>>
  /\ dOutcome = [kind |-> "pending", value |-> <<>>]
  /\ script = <<>>
  /\ served = 0
  /\ jobPayload = [text |-> <<>>, hasUtterances |-> FALSE, utterances |-> <<>>]
  /\ jobError = <<>>

\* no uploadAudio call made
NoUpload ==
  /\ upc = "idle"
  /\ uSize = 0
  /\ uTrace = <<>>
  /\ uOutcome = [kind |-> "pending", url |-> "", message |-> <<>>]
  /\ uploads = 0

\* the LiveSession page as mounted: language "en-US", nothing processed
NoPage ==
  /\ lpc = "idle"
  /\ uiLanguage = "en-US"
  /\ liveArgs = [audioUrl |-> "", speakerCount |-> 0, language |-> ""]
  /\ uiStage = "none"
  /\ stageError = <<>>
  /\ uiError = <<>>

\* a new AudioRecorder()
NewRecorder ==
  /\ rpc = "new"
  /\ recStream = "none"
  /\ mediaRecorder = "none"
  /\ recContext = "none"
  /\ scriptProcessor = FALSE
  /\ sourceNode = FALSE
  /\ audioChunks = <<>>
  /\ audioBuffer = <<>>
  /\ recIsRecording = FALSE
  /\ useWebAudio = FALSE
  /\ mimeType = "audio/webm"
  /\ sampleRate = 44100
  /\ delivered = <<>>
  /\ recOutcome = [kind |-> "pending", type |-> "", size |-> 0, bytes |-> <<>>,
                   message |-> <<>>, captured |-> 0]
  /\ settleCount = 0
  /\ rpc2 = "none"
  /\ oldStream = "none"
  /\ oldContext = "none"

\* no recorder in use
NoRecorder ==
  /\ NewRecorder
  /\ recEnv = "works"
  /\ hasAudioContext = TRUE
  /\ ctxRate = 44100

\* a new SpeechRecognitionService(), no call made
NewRecognizer ==
  /\ nativePc = [i \in Ids |-> "idle"]
  /\ nativeTrace = [i \in Ids |-> <<>>]
  /\ nativeErrs = [i \in Ids |-> <<>>]
  /\ recognition = "idle"
  /\ handlers = 0
  /\ results = <<>>
  /\ resultEvents = 0
  /\ transcripts = <<>>

\* the recognizer left alone
NoRecognizer == NewRecognizer /\ hasMediaDevices = TRUE

\* the orchestrator singleton, in any browser and configuration
Init ==
  /\ Fresh /\ NoRecognizer
  /\ NoJob
  /\ NoUpload /\ NoPage /\ NoRecorder
  /\ isBrave \in BOOLEAN
  /\ apiKeySet \in BOOLEAN
  /\ browserSupported \in BOOLEAN

\* the streaming client singleton used on its own
InitStream ==
  /\ Fresh /\ NoRecognizer
  /\ NoJob
  /\ NoUpload /\ NoPage /\ NoRecorder
  /\ isBrave \in BOOLEAN
  /\ apiKeySet \in BOOLEAN
  /\ browserSupported = FALSE

(***************************************************************************)
(* Operations of the orchestrator.                                         *)
(***************************************************************************)
UiLanguages == {"en-US", "es-ES"}

\* hybrid.startRecognition, the i-th call of the run
HybridStartRecognition(i) ==
  /\ route[i] = "none"
  /\ \A k \in Ids : k < i => route[k] # "none"
  /\ IF PrefersRemote(State)
       THEN Becomes(ApiStartRecognition(
              [State EXCEPT !.currentService = "api", !.route[i] = "api"],
              i, <<"wrapped", i>>))
       ELSE Becomes(BrowserStartRecognition(
              [State EXCEPT !.currentService = "browser", !.route[i] = "browser",
                            !.pc[i] = "browser"], i))

HybridStopRecognition ==
  /\ currentService # "none"
  /\ IF currentService = "api"
       THEN Becomes(StopRecognition(State))
       ELSE Becomes(BrowserStopRecognition(State))

HybridAbortRecognition ==
  /\ currentService # "none"
  /\ IF currentService = "api"
       THEN Becomes(StopRecognition(State))
       ELSE Becomes(BrowserStopRecognition(State))

HybridSetLanguage(l) ==
  IF useAPI
    THEN Becomes([State EXCEPT !.language = LanguageMap(l), !.requested = l])
    ELSE Becomes([State EXCEPT !.browserLang = l, !.requested = l])

ResetFallback ==
  /\ resets < MaxResets
  /\ Becomes([State EXCEPT !.apiFailed = FALSE, !.useAPI = IsConfigured,
                           !.resets = @ + 1])

(***************************************************************************)
(* Operations of the streaming client when a caller uses it directly.      *)
(***************************************************************************)
\* speechRecognitionAPIService.startRecognition, the i-th call of the run
ClientStartRecognition(i) ==
  /\ route[i] = "none"
  /\ \A k \in Ids : k < i => route[k] # "none"
  /\ Becomes(ApiStartRecognition([State EXCEPT !.route[i] = "api", !.afterStop = FALSE],
                                 i, <<"caller", i>>))

\* speechRecognitionAPIService.stopRecognition
ClientStopRecognition ==
  Becomes([StopRecognition(State) EXCEPT !.afterStop = TRUE])

(***************************************************************************)
(* Steps of a start call inside the streaming client.                      *)
(***************************************************************************)
\* getUserMedia resolves: stream, audio context, processing graph, and the
\* request to the callable getAssemblyAIToken is made
GetUserMediaResolves(i) ==
  /\ pc[i] = "gum"
  /\ Becomes([State EXCEPT !.mediaStream = i, !.trackLive[i] = TRUE,
                           !.audioContext = i, !.ctxOpen[i] = TRUE,
                           !.tokenTrace[i] = Append(@, "proxyCall"),
                           !.pc[i] = "proxy"])

GetUserMediaRejects(i, err) ==
  /\ pc[i] = "gum"
  /\ Becomes(StartCatch(State, i, err,
       IF err.name = "NotAllowedError" THEN "permission" ELSE "device"))

\* the callable answers, with or without a token in its data
ProxyResolves(i, hasToken) ==
  /\ pc[i] = "proxy"
  /\ Becomes(ConnectWithToken(
       [State EXCEPT !.tokenTrace[i] = Append(@, "proxyOk")], i, "proxy", hasToken))

\* the callable fails: the direct token request is made
ProxyRejects(i) ==
  /\ pc[i] = "proxy"
  /\ Becomes([State EXCEPT !.tokenTrace[i] = @ \o <<"proxyFail", "directCall">>,
                           !.pc[i] = "direct"])

\* the direct request answers 2xx, with or without a token in its body
DirectResolves(i, hasToken) ==
  /\ pc[i] = "direct"
  /\ Becomes(ConnectWithToken(
       [State EXCEPT !.tokenTrace[i] = Append(@, "directOk")], i, "direct", hasToken))

\* the direct request answers with an error status
DirectHttpError(i, status) ==
  /\ pc[i] = "direct"
  /\ Becomes(StartCatch(
       [State EXCEPT !.tokenTrace[i] = Append(@, "directFail")], i,
       TokenFailure(HttpErrorMessage(status)), "http401"))

\* fetch of the direct request throws: the network path is blocked or down
DirectThrows(i, msg) ==
  /\ pc[i] = "direct"
  /\ Becomes(StartCatch(
       [State EXCEPT !.tokenTrace[i] = Append(@, "directFail")], i,
       TokenFailure(msg), "blocked"))

(***************************************************************************)
(* Events of the connection and of the capture graph.                      *)
(***************************************************************************)
\* socket.onopen of the socket made by start call i
SocketOnOpen(i) ==
  /\ sockState[i] = "CONNECTING"
  /\ Becomes([State EXCEPT !.sockState[i] = "OPEN", !.isRecording = TRUE,
                           !.startCount[i] = @ + 1])

\* socket.onmessage: SessionTerminated, sent once by the service
SocketOnSessionTerminated(i) ==
  /\ sockState[i] = "OPEN"
  /\ i \notin sessionTerminated
  /\ Becomes([State EXCEPT !.sessionTerminated = @ \cup {i},
                           !.isRecording = FALSE, !.endCount[i] = @ + 1])

\* socket.onerror: the connection failed; the platform then closes it
SocketOnError(i) ==
  /\ sockState[i] \in {"CONNECTING", "OPEN"}
  /\ Becomes(SocketClose(
       StopRecognition(OnErrorCallback(State, MsgConnectionError(isBrave))), i))

\* socket.onclose: the closing handshake ended, or the service closed
SocketOnClose(i) ==
  /\ sockState[i] \in {"OPEN", "CLOSING"}
  /\ Becomes([State EXCEPT !.sockState[i] = "CLOSED", !.isRecording = FALSE,
                           !.endCount[i] = @ + 1])

\* the guard, had it not looked at the connection's readyState
ShouldSendFrame_NoReadyState(s) ==
  s.isRecording /\ s.socket # 0

\* the guard of the audio callback
ShouldSendFrame(s) ==
  s.isRecording /\ s.socket # 0 /\ s.sockState[s.socket] = "OPEN"

\* processor.onaudioprocess of the graph made by start call i
OnAudioProcess(i) ==
  /\ ctxOpen[i]
  /\ frameNo < MaxFrames
  /\ LET s == [State EXCEPT !.frameNo = @ + 1] IN
     IF ShouldSendFrame(s)
       THEN Becomes(SocketSend(s, s.socket, <<"frame", s.frameNo>>))
       ELSE Becomes(s)

\* what the platform and the remote service do to a start call in progress
StartSteps ==
  \/ \E i \in Ids : GetUserMediaResolves(i)
  \/ \E i \in Ids : \E err \in GumErrors : GetUserMediaRejects(i, err)
  \/ \E i \in Ids : \E hasToken \in BOOLEAN : ProxyResolves(i, hasToken)
  \/ \E i \in Ids : ProxyRejects(i)
  \/ \E i \in Ids : \E hasToken \in BOOLEAN : DirectResolves(i, hasToken)
  \/ \E i \in Ids : \E status \in HttpErrorStatuses : DirectHttpError(i, status)
  \/ \E i \in Ids : \E msg \in FetchFailures : DirectThrows(i, msg)

SocketEvents ==
  \/ \E i \in Ids : SocketOnOpen(i)
  \/ \E i \in Ids : SocketOnSessionTerminated(i)
  \/ \E i \in Ids : SocketOnError(i)
  \/ \E i \in Ids : SocketOnClose(i)

\* the orchestrator and its streaming client
Next ==
  \/ \E i \in Ids : HybridStartRecognition(i)
  \/ HybridStopRecognition
  \/ HybridAbortRecognition
  \/ ResetFallback
  \/ StartSteps
  \/ SocketEvents

Spec == Init /\ [][Next]_vars

\* the same, with the language selector in use
NextLang ==
  \/ Next
  \/ \E l \in UiLanguages : HybridSetLanguage(l)

SpecLang == Init /\ [][NextLang]_vars

\* the streaming client on its own, with its capture graph
NextStream ==
  \/ \E i \in Ids : ClientStartRecognition(i)
  \/ ClientStopRecognition
  \/ StartSteps
  \/ SocketEvents
  \/ \E i \in Ids : OnAudioProcess(i)

SpecStream == InitStream /\ [][NextStream]_vars


(***************************************************************************)
(* SpeechRecognitionAPIService.transcribeWithDiarization.                  *)
(* A text is a sequence of lines, a line a sequence of words.              *)
(***************************************************************************)
Letters ==
  <<"A", "B", "C", "D", "E", "F", "G", "H", "I", "J", "K", "L", "M",
    "N", "O", "P", "Q", "R", "S", "T", "U", "V", "W", "X", "Y", "Z">>

\* getSpeakerLabel, had it stopped at the last letter instead of wrapping
GetSpeakerLabel_NoWrap(speaker) ==
  IF speaker.kind = "null" THEN "Unknown"
  ELSE IF speaker.kind = "str" THEN speaker.s
  ELSE Letters[IF speaker.n < 26 THEN speaker.n + 1 ELSE 26]

\* a speaker is null, a number (the 0-based index) or a string that is no number
GetSpeakerLabel(speaker) ==
  IF speaker.kind = "null" THEN "Unknown"
  ELSE IF speaker.kind = "str" THEN speaker.s
  ELSE Letters[(speaker.n % 26) + 1]

FormatUtterance(u) == <<"[", "Speaker", GetSpeakerLabel(u.speaker), "]">> \o u.text

\* the branch "statusData.status === completed"
FormatResult(data) ==
  IF ~data.hasUtterances
    THEN data.text
    ELSE [k \in 1..Len(data.utterances) |-> FormatUtterance(data.utterances[k])]

\* the poll loop, had it lacked the branch for the status error
PollOutcome_NoErrorBranch(data) ==
  IF data.status = "completed"
    THEN [kind |-> "return", value |-> FormatResult(data)]
    ELSE [kind |-> "continue", value |-> <<>>]

\* one turn of the poll loop on the parsed status response: return, throw, or
\* sleep and poll again
PollOutcome(data) ==
  IF data.status = "completed"
    THEN [kind |-> "return", value |-> FormatResult(data)]
  ELSE IF data.status = "error"
    THEN [kind |-> "throw", value |-> <<<<"Transcription", "error", ":">> \o data.error>>]
  ELSE [kind |-> "continue", value |-> <<>>]

\* the remote job: what its k-th status response carries
StatusResponse(k) ==
  LET st == script[IF k <= Len(script) THEN k ELSE Len(script)] IN
  [ status |-> st, text |-> jobPayload.text,
    hasUtterances |-> jobPayload.hasUtterances,
    utterances |-> jobPayload.utterances, error |-> jobError ]

NumSpeaker(n) == [kind |-> "num", n |-> n, s |-> ""]
StrSpeaker(s) == [kind |-> "str", n |-> 0, s |-> s]
NullSpeaker == [kind |-> "null", n |-> 0, s |-> ""]

Payloads ==
  { [text |-> << <<"hi", "there">> >>, hasUtterances |-> FALSE, utterances |-> <<>>],
    [text |-> << <<"hi", "there">> >>, hasUtterances |-> TRUE,
     utterances |-> << [speaker |-> NumSpeaker(0), text |-> <<"hi">>],
                       [speaker |-> NumSpeaker(1), text |-> <<"there">>] >>],
    [text |-> << <<"hi", "there">> >>, hasUtterances |-> TRUE,
     utterances |-> << [speaker |-> NumSpeaker(27), text |-> <<"hi">>],
                       [speaker |-> NullSpeaker, text |-> <<"there">>] >>],
    [text |-> << <<"hi">> >>, hasUtterances |-> TRUE,
     utterances |-> << [speaker |-> StrSpeaker("B"), text |-> <<"hi">>] >>],
    [text |-> << <<"hi">> >>, hasUtterances |-> TRUE, utterances |-> <<>>] }

JobErrors == { <<"Audio", "could", "not", "be", "decoded">>, <<"Download", "error">> }

Repeat(x, n) == [k \in 1..n |-> x]

\* queued^a processing^b followed by one terminal status
Scripts ==
  { Repeat("queued", a) \o Repeat("processing", b) \o <<term>> :
      a \in 0..(MaxPolls - 1), b \in 0..(MaxPolls - 1),
      term \in {"completed", "error"} }

AudioUrls == { "upload-1", "upload-2" }
SpeakerCounts == { 2, 3 }

InitDiar ==
  /\ Fresh /\ NoRecognizer
  /\ NoUpload /\ NoPage /\ NoRecorder
  /\ isBrave = FALSE
  /\ apiKeySet = TRUE
  /\ browserSupported = FALSE
  /\ isProcessing = FALSE
  /\ dpc = "idle"
  /\ dRequest = [audio_url |-> "", speaker_labels |-> FALSE,
                  speakers_expected |-> 0, language_code |-> ""]
  /\ polls = 0
  /\ badPolls = 0
  /\ polled = <<>>
  /\ dOutcome = [kind |-> "pending", value |-> <<>>]
  /\ script \in { sc \in Scripts : Len(sc) <= MaxPolls }
  /\ served = 0
  /\ jobPayload \in Payloads
  /\ jobError \in JobErrors

\* the counters of a call stop at PollCap, which no call reaches whose job
\* reports a terminal status within MaxPolls status requests
PollCap == MaxPolls + MaxBadPolls + 1

Bump(n) == IF n < PollCap THEN n + 1 ELSE n

\* the body of the transcription job
JobBody(audioUrl, speakerCount) ==
  [audio_url |-> audioUrl, speaker_labels |-> TRUE,
   speakers_expected |-> speakerCount, language_code |-> language]

\* the call, up to the await of the submission request
TranscribeWithDiarization(audioUrl, speakerCount) ==
  /\ dpc = "idle"
  /\ isProcessing' = TRUE
  /\ dRequest' = JobBody(audioUrl, speakerCount)
  /\ dpc' = "submit"
  /\ UNCHANGED <<polls, badPolls, polled, dOutcome, script, served, jobPayload,
                 jobError>>
  /\ UNCHANGED <<streamVars, restVars>>

\* catch rethrows, finally clears isProcessing
Rejects(message) ==
  /\ dOutcome' = [kind |-> "throw", value |-> <<message>>]
  /\ isProcessing' = FALSE
  /\ dpc' = "done"

\* the submission is accepted: the first status request is made
SubmitResolves ==
  /\ dpc = "submit"
  /\ dpc' = "poll"
  /\ polls' = Bump(polls)
  /\ UNCHANGED <<isProcessing, dRequest, badPolls, polled, dOutcome, script,
                 served, jobPayload, jobError>>
  /\ UNCHANGED <<streamVars, restVars>>

\* the submission is refused (response not ok) or its fetch throws
SubmitFails(message) ==
  /\ dpc = "submit"
  /\ Rejects(message)
  /\ UNCHANGED <<dRequest, polls, badPolls, polled, script, served, jobPayload,
                 jobError>>
  /\ UNCHANGED <<streamVars, restVars>>

\* the answer to a status request, had the loop gone on without its timer
PollAnswers_NoSleep ==
  /\ dpc = "poll"
  /\ LET data == StatusResponse(served + 1)
         out == PollOutcome(data)
     IN /\ served' = Bump(served)
        /\ polled' = IF Len(polled) < PollCap
                        THEN Append(polled, data.status)
                        ELSE polled
        /\ IF out.kind = "continue"
             THEN /\ dpc' = "poll"
                  /\ polls' = Bump(polls)
                  /\ UNCHANGED <<dOutcome, isProcessing>>
             ELSE /\ dpc' = "done"
                  /\ dOutcome' = out
                  /\ isProcessing' = FALSE
                  /\ UNCHANGED polls
  /\ UNCHANGED <<dRequest, badPolls, script, jobPayload, jobError>>
  /\ UNCHANGED <<streamVars, restVars>>

\* a status request is answered with the job's status
PollAnswers ==
  /\ dpc = "poll"
  /\ LET data == StatusResponse(served + 1)
         out == PollOutcome(data)
     IN /\ served' = Bump(served)
        /\ polled' = IF Len(polled) < PollCap
                        THEN Append(polled, data.status)
                        ELSE polled
        /\ IF out.kind = "continue"
             THEN /\ dpc' = "sleep"
                  /\ UNCHANGED <<dOutcome, isProcessing>>
             ELSE /\ dpc' = "done"
                  /\ dOutcome' = out
                  /\ isProcessing' = FALSE
  /\ UNCHANGED <<dRequest, polls, badPolls, script, jobPayload, jobError>>
  /\ UNCHANGED <<streamVars, restVars>>

\* the fetch of a status request throws, or its body is no JSON
PollThrows(message) ==
  /\ dpc = "poll"
  /\ badPolls < MaxBadPolls
  /\ badPolls' = badPolls + 1
  /\ Rejects(message)
  /\ UNCHANGED <<dRequest, polls, polled, script, served, jobPayload, jobError>>
  /\ UNCHANGED <<streamVars, restVars>>

\* a status request is answered with JSON that carries no status
PollWithoutStatus ==
  /\ dpc = "poll"
  /\ badPolls < MaxBadPolls
  /\ badPolls' = badPolls + 1
  /\ dpc' = "sleep"
  /\ UNCHANGED <<isProcessing, dRequest, polls, polled, dOutcome, script, served,
                 jobPayload, jobError>>
  /\ UNCHANGED <<streamVars, restVars>>

\* the timer's end, had the loop given up after its second status request
SleepEnds_GivesUp ==
  /\ dpc = "sleep"
  /\ IF polls >= 2
       THEN /\ Rejects(<<"Transcription", "timed", "out">>)
            /\ UNCHANGED polls
       ELSE /\ dpc' = "poll"
            /\ polls' = Bump(polls)
            /\ UNCHANGED <<isProcessing, dOutcome>>
  /\ UNCHANGED <<dRequest, badPolls, polled, script, served, jobPayload, jobError>>
  /\ UNCHANGED <<streamVars, restVars>>

\* the 3 s timer fires: the next status request is made
SleepEnds ==
  /\ dpc = "sleep"
  /\ dpc' = "poll"
  /\ polls' = Bump(polls)
  /\ UNCHANGED <<isProcessing, dRequest, badPolls, polled, dOutcome, script,
                 served, jobPayload, jobError>>
  /\ UNCHANGED <<streamVars, restVars>>

MsgFailedToFetch == <<"Failed", "to", "fetch">>
MsgSubmitRefused == <<"Transcription", "request", "failed", ":", "Bad", "Request">>

NextDiar ==
  \/ \E u \in AudioUrls : \E n \in SpeakerCounts : TranscribeWithDiarization(u, n)
  \/ SubmitResolves
  \/ \E m \in {MsgFailedToFetch, MsgSubmitRefused} : SubmitFails(m)
  \/ PollAnswers
  \/ PollThrows(MsgFailedToFetch)
  \/ PollWithoutStatus
  \/ SleepEnds

SpecDiar == InitDiar /\ [][NextDiar]_vars

\* jobs that never report a terminal status: the last status is repeated
EndlessScripts ==
  { Repeat("queued", a) \o Repeat("processing", b) : a \in 0..1, b \in 1..2 }

\* a call against a service of either kind
InitDiarAnyService ==
  /\ Fresh /\ NoRecognizer
  /\ NoUpload /\ NoPage /\ NoRecorder
  /\ isBrave = FALSE
  /\ apiKeySet = TRUE
  /\ browserSupported = FALSE
  /\ isProcessing = FALSE
  /\ dpc = "idle"
  /\ dRequest = [audio_url |-> "", speaker_labels |-> FALSE,
                  speakers_expected |-> 0, language_code |-> ""]
  /\ polls = 0
  /\ badPolls = 0
  /\ polled = <<>>
  /\ dOutcome = [kind |-> "pending", value |-> <<>>]
  /\ script \in { sc \in Scripts : Len(sc) <= MaxPolls } \cup EndlessScripts
  /\ served = 0
  /\ jobPayload \in Payloads
  /\ jobError \in JobErrors

\* every request the call awaits is settled, and the timer it awaits fires
DiarFairness ==
  /\ WF_vars(SubmitResolves \/ \E m \in {MsgFailedToFetch, MsgSubmitRefused} : SubmitFails(m))
  /\ WF_vars(PollAnswers \/ PollThrows(MsgFailedToFetch) \/ PollWithoutStatus)
  /\ WF_vars(SleepEnds)

SpecDiarFair == InitDiarAnyService /\ [][NextDiar]_vars /\ DiarFairness


(***************************************************************************)
(* SpeechRecognitionAPIService.uploadAudio (the proxy-first version).      *)
(***************************************************************************)
\* sizes are in bytes
firebaseFunctionsMaxSize == 9 * 1024 * 1024
assemblyAIMaxSize == 200 * 1024 * 1024

\* the blobs of the model: empty, tiny, around the proxy threshold, around the
\* cap, and one of 401 MB
BlobSizes ==
  { 0, 1, firebaseFunctionsMaxSize - 1, firebaseFunctionsMaxSize,
    firebaseFunctionsMaxSize + 1, assemblyAIMaxSize, assemblyAIMaxSize + 1,
    401 * 1024 * 1024 }

MsgEmptyBlob == <<"Audio", "blob", "is", "empty", "or", "invalid">>

\* (size / 1024 / 1024).toFixed(2), for sizes whose two decimals are 00
SizeInMB(size) == <<ToString(size \div (1024 * 1024)), ".", "00", "MB">>

MsgFileTooLarge(size) ==
  <<"Audio", "file", "is", "too", "large", "(">> \o SizeInMB(size) \o
  <<")", ".", "Maximum", "size", "is", "200MB", ".">>

MsgUploadConfig ==
  <<"Unable", "to", "upload", "audio", ".", "Please", "ensure", ":",
    "1", ".", "Firebase", "Functions", "are", "deployed", "with",
    "uploadAudioToAssemblyAI", "function", "(", "for", "files", "<", "10MB", ")",
    "2", ".", "Or", "set", "REACT_APP_ASSEMBLYAI_API_KEY", "in", ".env", "file",
    "3", ".", "Check", "your", "network", "connection">>

MsgNoUploadUrl ==
  <<"No", "upload", "URL", "in", "response", "from", "AssemblyAI">>

\* `Upload failed (${response.status}): ${errorData.error || errorText}`
MsgUploadHttp(status, body) ==
  <<"Upload", "failed", "(", status, ")", ":">> \o body

MsgUploadNetwork ==
  <<"Network", "error", "uploading", "audio", ".", "Please", "check", "your",
    "internet", "connection", "and", "try", "again", ".">>

MsgUploadAuth ==
  <<"Authentication", "failed", ".", "Please", "check", "your", "AssemblyAI",
    "API", "key", "configuration", ".">>

MsgUploadShorter ==
  <<"Audio", "file", "is", "too", "large", ".", "Please", "record", "a",
    "shorter", "session", "or", "use", "a", "lower", "quality", "setting", ".">>

\* answers of the upload endpoint that are not ok: status and error text
UploadHttpErrors ==
  { <<"401", <<"Unauthorized">> >>,
    <<"413", <<"Payload", "Too", "Large">> >>,
    <<"500", <<"Internal", "Server", "Error">> >>,
    <<"504", <<"upstream", "request", "timeout">> >> }

\* the outer catch: the message of the error that uploadAudio throws
UploadError(message) ==
  IF Includes(message, <<"Failed", "to", "fetch">>)
       \/ Includes(message, <<"NetworkError">>)
    THEN MsgUploadNetwork
  ELSE IF Includes(message, <<"401">>) \/ Includes(message, <<"Unauthorized">>)
    THEN MsgUploadAuth
  ELSE IF Includes(message, <<"413">>) \/ Includes(message, <<"too", "large">>)
    THEN MsgUploadShorter
  ELSE <<"Failed", "to", "upload", "audio", ":">> \o message

\* an error thrown inside the try block: the call rejects
UploadThrows(trace, message) ==
  /\ upc' = "done"
  /\ uTrace' = trace
  /\ uOutcome' = [kind |-> "throw", url |-> "", message |-> UploadError(message)]

\* the call resolves with the upload URL
UploadReturns(trace, url) ==
  /\ upc' = "done"
  /\ uTrace' = trace
  /\ uOutcome' = [kind |-> "return", url |-> url, message |-> <<>>]

\* the direct upload, had it been sent without looking at the credential
DirectUpload_NoCredentialTest(trace) ==
  /\ upc' = "direct"
  /\ uTrace' = Append(trace, <<"direct", "">>)
  /\ UNCHANGED uOutcome

\* the direct upload, up to the await of its request
DirectUpload(trace) ==
  IF ~apiKeySet
    THEN UploadThrows(trace, MsgUploadConfig)
    ELSE /\ upc' = "direct"
         /\ uTrace' = Append(trace, <<"direct", "">>)
         /\ UNCHANGED uOutcome

\* const useDirectUpload
UseDirectUpload(size) == size > firebaseFunctionsMaxSize

\* uploadAudio(audioBlob), up to its first await; uTrace lists the requests
\* of the call and their answers
UploadAudioBody(size) ==
  /\ upc \in {"idle", "done"}
  /\ uploads < MaxUploads
  /\ uploads' = uploads + 1
  /\ uSize' = size
  /\ IF size = 0
       THEN UploadThrows(<<>>, MsgEmptyBlob)
     ELSE IF size > assemblyAIMaxSize
       THEN UploadThrows(<<>>, MsgFileTooLarge(size))
     ELSE IF ~UseDirectUpload(size)
       THEN /\ upc' = "proxy"
            /\ uTrace' = << <<"proxy", "">> >>
            /\ uOutcome' = [kind |-> "pending", url |-> "", message |-> <<>>]
     ELSE IF ~apiKeySet
       THEN UploadThrows(<<>>, MsgUploadConfig)
     ELSE /\ upc' = "direct"
          /\ uTrace' = << <<"direct", "">> >>
          /\ uOutcome' = [kind |-> "pending", url |-> "", message |-> <<>>]

\* the service's uploadAudio called on its own
UploadAudio(size) ==
  /\ UploadAudioBody(size)
  /\ UNCHANGED <<streamVars, diarVars, liveVars, recVars, nativeVars>>

\* the callable answers with an upload URL
UploadProxyReturns(url) ==
  /\ upc = "proxy"
  /\ UploadReturns(Append(uTrace, <<"proxy-ok", url>>), url)
  /\ UNCHANGED <<uploads, uSize, streamVars, diarVars, liveVars, recVars, nativeVars>>

\* the callable (or the base64 conversion before it) throws, or its answer
\* carries no upload URL: fall through to the direct upload
UploadProxyFails(how) ==
  /\ upc = "proxy"
  /\ DirectUpload(Append(uTrace, <<how, "">>))
  /\ UNCHANGED <<uploads, uSize, streamVars, diarVars, liveVars, recVars, nativeVars>>

\* the upload endpoint answers ok with an upload URL
UploadDirectReturns(url) ==
  /\ upc = "direct"
  /\ UploadReturns(Append(uTrace, <<"direct-ok", url>>), url)
  /\ UNCHANGED <<uploads, uSize, streamVars, diarVars, liveVars, recVars, nativeVars>>

\* the upload endpoint answers ok without an upload URL
UploadDirectNoUrl ==
  /\ upc = "direct"
  /\ UploadThrows(Append(uTrace, <<"direct-nourl", "">>), MsgNoUploadUrl)
  /\ UNCHANGED <<uploads, uSize, streamVars, diarVars, liveVars, recVars, nativeVars>>

\* the upload endpoint answers with a status that is not ok
UploadDirectHttpError(e) ==
  /\ upc = "direct"
  /\ UploadThrows(Append(uTrace, <<"direct-http", e[1]>>), MsgUploadHttp(e[1], e[2]))
  /\ UNCHANGED <<uploads, uSize, streamVars, diarVars, liveVars, recVars, nativeVars>>

\* the fetch of the direct upload throws
UploadDirectThrows(message) ==
  /\ upc = "direct"
  /\ UploadThrows(Append(uTrace, <<"direct-threw", "">>), message)
  /\ UNCHANGED <<uploads, uSize, streamVars, diarVars, liveVars, recVars, nativeVars>>

ProxyFailures == { "proxy-threw", "proxy-nourl" }

UploadSteps ==
  \/ \E u \in AudioUrls : UploadProxyReturns(u)
  \/ \E how \in ProxyFailures : UploadProxyFails(how)
  \/ \E u \in AudioUrls : UploadDirectReturns(u)
  \/ UploadDirectNoUrl
  \/ \E e \in UploadHttpErrors : UploadDirectHttpError(e)
  \/ \E m \in FetchFailures : UploadDirectThrows(m)

InitUpload ==
  /\ Fresh /\ NoRecognizer
  /\ NoJob
  /\ NoUpload /\ NoPage /\ NoRecorder
  /\ isBrave = FALSE
  /\ apiKeySet \in BOOLEAN
  /\ browserSupported = FALSE

NextUpload ==
  \/ \E size \in BlobSizes : UploadAudio(size)
  \/ UploadSteps

SpecUpload == InitUpload /\ [][NextUpload]_vars


(***************************************************************************)
(* LiveSession page: the language selector and handleStopRecording in      *)
(* multi-speaker mode (stop the recorder, upload, transcribe, show).       *)
(***************************************************************************)
MsgNoAudioRecorded ==
  <<"No", "audio", "data", "was", "recorded", ".", "Please", "ensure", "your",
    "microphone", "is", "working", "and", "try", "again", ".">>

MsgNoTranscript ==
  <<"No", "transcript", "was", "generated", "from", "the", "audio", ".",
    "Please", "try", "recording", "again", ".">>

MsgAnalysisFailed == <<"Multi-speaker", "analysis", "failed", ".">>

MsgTakingTooLong ==
  <<"The", "analysis", "is", "taking", "too", "long", ".", "Please", "try",
    "recording", "a", "shorter", "session", ".">>

MsgCheckConnection ==
  <<"Network", "error", ".", "Please", "check", "your", "internet",
    "connection", "and", "try", "again", ".">>

MsgAuthError ==
  <<"Authentication", "error", ".", "Please", "check", "your", "API",
    "configuration", ".">>

\* the catch of handleStopRecording: the message shown for err.message
TranslateError(message) ==
  MsgAnalysisFailed \o
    ( IF Includes(message, <<"timeout">>) \/ Includes(message, <<"timed", "out">>)
        THEN MsgTakingTooLong
      ELSE IF Includes(message, <<"network">>) \/ Includes(message, <<"fetch">>)
        THEN MsgCheckConnection
      ELSE IF Includes(message, <<"401">>) \/ Includes(message, <<"Unauthorized">>)
        THEN MsgAuthError
      ELSE IF Includes(message, <<"Upload", "failed">>)
        THEN message
      ELSE message )

\* an error reaches the catch of handleStopRecording
PageCatch(stage, message) ==
  /\ lpc' = "shown"
  /\ uiStage' = stage
  /\ stageError' = message
  /\ uiError' = TranslateError(message)

\* the language selector: the page's language state and the recognizer the
\* page uses (the on-device one)
HandleLanguageChange(l) ==
  /\ lpc = "idle"
  /\ uiLanguage # l
  /\ uiLanguage' = l
  /\ browserLang' = l
  /\ UNCHANGED <<lpc, liveArgs, uiStage, stageError, uiError>>
  /\ UNCHANGED <<useAPI, apiFailed, currentService, isRecording, mediaStream,
                 audioContext, socket, onResultCallback, onErrorCallback,
                 language, trackLive, ctxOpen, sockState, sockOut,
                 sessionTerminated, route, pc, failKind, tokenTrace, token,
                 errs, startCount, endCount, apiErrs, fbBy, browserCalls,
                 browserActive, frameNo, resets, afterStop, requested>>
  /\ UNCHANGED <<envVars, diarVars, uploadVars, recVars, nativeVars>>

\* setLanguage of the streaming client singleton
ClientSetLanguage(l) ==
  /\ lpc = "idle"
  /\ language # LanguageMap(l)
  /\ Becomes([State EXCEPT !.language = LanguageMap(l)])

\* handleStopRecording, from the blob the recorder resolved with up to the
\* await of uploadAudio; the handler runs with the speakerCount and language
\* of the render it was created in
HandleStopRecording(size, count) ==
  /\ lpc = "idle"
  /\ liveArgs' = [audioUrl |-> "", speakerCount |-> count, language |-> uiLanguage]
  /\ IF size = 0
       THEN /\ PageCatch("record", MsgNoAudioRecorded)
            /\ UNCHANGED uploadVars
       ELSE /\ lpc' = "uploading"
            /\ UploadAudioBody(size)
            /\ UNCHANGED <<uiStage, stageError, uiError>>
  /\ UNCHANGED <<uiLanguage, streamVars, diarVars, recVars, nativeVars>>

\* uploadAudio rejected: the inner catch adds the stage prefix and rethrows
PageUploadRejected ==
  /\ lpc = "uploading"
  /\ upc = "done" /\ uOutcome.kind = "throw"
  /\ PageCatch("upload", <<"Upload", "failed", ":">> \o uOutcome.message)
  /\ UNCHANGED <<uiLanguage, liveArgs, streamVars, diarVars, uploadVars, recVars, nativeVars>>

\* uploadAudio resolved: transcribeWithDiarization(uploadUrl, speakerCount,
\* language) is called; the method has two parameters
PageUploadResolved ==
  /\ lpc = "uploading"
  /\ upc = "done" /\ uOutcome.kind = "return"
  /\ dpc = "idle"
  /\ lpc' = "transcribing"
  /\ liveArgs' = [liveArgs EXCEPT !.audioUrl = uOutcome.url]
  /\ isProcessing' = TRUE
  /\ dRequest' = JobBody(uOutcome.url, liveArgs.speakerCount)
  /\ dpc' = "submit"
  /\ UNCHANGED <<polls, badPolls, polled, dOutcome, script, served, jobPayload,
                 jobError>>
  /\ UNCHANGED <<uiLanguage, uiStage, stageError, uiError>>
  /\ UNCHANGED <<streamVars, uploadVars, recVars, nativeVars>>

\* the text of a result has something other than white space
NonBlank(value) == \E k \in 1..Len(value) : value[k] # <<>>

\* transcribeWithDiarization settled: the transcript is shown, or the error
PageTranscriptionSettled ==
  /\ lpc = "transcribing"
  /\ dpc = "done"
  /\ IF dOutcome.kind = "return"
       THEN IF NonBlank(dOutcome.value)
              THEN /\ lpc' = "shown"
                   /\ uiError' = <<>>
                   /\ UNCHANGED <<uiStage, stageError>>
              ELSE PageCatch("empty", MsgNoTranscript)
       ELSE PageCatch("transcription", dOutcome.value[1])
  /\ UNCHANGED <<uiLanguage, liveArgs, streamVars, diarVars, uploadVars, recVars, nativeVars>>

\* error texts of a failed job, as the service words them
LiveJobErrors ==
  { <<"Audio", "could", "not", "be", "decoded">>,
    <<"Download", "of", "the", "audio", "timed", "out">> }

\* refusals of the submission
SubmitRefusals ==
  { MsgFailedToFetch,
    <<"Transcription", "request", "failed", ":", "Unauthorized">>,
    MsgSubmitRefused }

InitLive ==
  /\ Fresh /\ NoRecognizer
  /\ NoUpload /\ NoPage /\ NoRecorder
  /\ isBrave = FALSE
  /\ apiKeySet \in BOOLEAN
  /\ browserSupported = TRUE
  /\ isProcessing = FALSE
  /\ dpc = "idle"
  /\ dRequest = [audio_url |-> "", speaker_labels |-> FALSE,
                  speakers_expected |-> 0, language_code |-> ""]
  /\ polls = 0
  /\ badPolls = 0
  /\ polled = <<>>
  /\ dOutcome = [kind |-> "pending", value |-> <<>>]
  /\ script \in { sc \in Scripts : Len(sc) <= 2 }
  /\ served = 0
  /\ jobPayload \in Payloads
  /\ jobError \in LiveJobErrors

NextLive ==
  \/ \E l \in UiLanguages : HandleLanguageChange(l)
  \/ \E l \in UiLanguages : ClientSetLanguage(l)
  \/ \E size \in BlobSizes : \E n \in SpeakerCounts : HandleStopRecording(size, n)
  \/ UploadSteps
  \/ PageUploadRejected
  \/ PageUploadResolved
  \/ SubmitResolves
  \/ \E m \in SubmitRefusals : SubmitFails(m)
  \/ PollAnswers
  \/ PollThrows(MsgFailedToFetch)
  \/ PollWithoutStatus
  \/ SleepEnds
  \/ PageTranscriptionSettled

SpecLive == InitLive /\ [][NextLive]_vars


(***************************************************************************)
(* AudioRecorder.convertToWAV and convertFloat32ToInt16.                   *)
(* A sample is a rational k / SampleScale, held as its numerator k; a      *)
(* chunk (a Float32Array) is a sequence of samples; a file is a sequence   *)
(* of bytes.                                                               *)
(***************************************************************************)
\* Math.max(-1, Math.min(1, x))
Clamp(x) ==
  IF x > SampleScale THEN SampleScale
  ELSE IF x < 0 - SampleScale THEN 0 - SampleScale
  ELSE x

\* the integer part of a / b, towards zero, for b > 0
Trunc(a, b) == IF a >= 0 THEN a \div b ELSE 0 - ((0 - a) \div b)

\* the conversion of a number to a 16-bit signed integer, as setInt16 and
\* the store into an Int16Array do it: integer part, modulo 2^16
ToInt16(a, b) ==
  LET m == Trunc(a, b) % 65536 IN IF m >= 32768 THEN m - 65536 ELSE m

\* the encoder, had it not clamped the sample
EncodeSample_NoClamp(x) ==
  IF x < 0 THEN ToInt16(x * 32768, SampleScale)
           ELSE ToInt16(x * 32767, SampleScale)

\* sample < 0 ? sample * 0x8000 : sample * 0x7FFF, stored as Int16
EncodeSample(x) ==
  LET sample == Clamp(x) IN
  IF sample < 0 THEN ToInt16(sample * 32768, SampleScale)
                ELSE ToInt16(sample * 32767, SampleScale)

\* convertFloat32ToInt16 of the streaming client
ConvertFloat32ToInt16(float32Array) ==
  [k \in 1..Len(float32Array) |-> EncodeSample(float32Array[k])]

\* little-endian writes of a DataView
Uint16LE(n) == << n % 256, (n \div 256) % 256 >>
Uint32LE(n) ==
  << n % 256, (n \div 256) % 256, (n \div 65536) % 256, (n \div 16777216) % 256 >>
Int16LE(v) == Uint16LE(v % 65536)

\* writeString: the character codes of the four names of the header
Ascii(string) ==
  CASE string = "RIFF" -> <<82, 73, 70, 70>>
    [] string = "WAVE" -> <<87, 65, 86, 69>>
    [] string = "fmt " -> <<102, 109, 116, 32>>
    [] string = "data" -> <<100, 97, 116, 97>>

RECURSIVE Flatten(_)
\* the samples of a list of chunks, in order
Flatten(audioBuffers) ==
  IF audioBuffers = <<>> THEN <<>>
  ELSE Head(audioBuffers) \o Flatten(Tail(audioBuffers))

\* totalLength
TotalLength(audioBuffers) == Len(Flatten(audioBuffers))

\* the header, had the byte rate been written as the sample rate
WavHeader_ByteRateUnscaled(totalLength, rate) ==
  Ascii("RIFF") \o Uint32LE(36 + totalLength * 2) \o Ascii("WAVE") \o
  Ascii("fmt ") \o Uint32LE(16) \o Uint16LE(1) \o Uint16LE(1) \o
  Uint32LE(rate) \o Uint32LE(rate) \o Uint16LE(2) \o Uint16LE(16) \o
  Ascii("data") \o Uint32LE(totalLength * 2)

\* the 44 bytes of the header
WavHeader(totalLength, rate) ==
  Ascii("RIFF") \o Uint32LE(36 + totalLength * 2) \o Ascii("WAVE") \o
  Ascii("fmt ") \o Uint32LE(16) \o Uint16LE(1) \o Uint16LE(1) \o
  Uint32LE(rate) \o Uint32LE(rate * 2) \o Uint16LE(2) \o Uint16LE(16) \o
  Ascii("data") \o Uint32LE(totalLength * 2)

RECURSIVE WavData(_)
\* the samples, two bytes each
WavData(samples) ==
  IF samples = <<>> THEN <<>>
  ELSE Int16LE(EncodeSample(Head(samples))) \o WavData(Tail(samples))

MsgNoAudioToConvert == <<"No", "audio", "data", "to", "convert">>

\* convertToWAV: the blob made, or the error thrown
ConvertToWAV(audioBuffers, rate) ==
  IF TotalLength(audioBuffers) = 0
    THEN [ok |-> FALSE, type |-> "", bytes |-> <<>>, message |-> MsgNoAudioToConvert]
    ELSE [ok |-> TRUE, type |-> "audio/wav",
          bytes |-> WavHeader(TotalLength(audioBuffers), rate) \o
                      WavData(Flatten(audioBuffers)),
          message |-> <<>>]

(***************************************************************************)
(* AudioRecorder.  The page makes a new AudioRecorder for every start, so  *)
(* an instance gets one startRecording.                                    *)
(***************************************************************************)
\* what the recorder cannot change: whether MediaRecorder exists and works,
\* whether an AudioContext class exists, the rate the context runs at
recEnvVars == <<recEnv, hasAudioContext, ctxRate>>

\* MediaRecorder is undefined, works, throws in its constructor, or throws
\* in start()
RecorderEnvs == { "absent", "works", "ctorThrows", "startThrows" }

SampleRates == { 44100, 48000 }

\* the instance as one value
Rec ==
  [ stream |-> recStream, mediaRecorder |-> mediaRecorder, context |-> recContext,
    scriptProcessor |-> scriptProcessor, sourceNode |-> sourceNode,
    audioChunks |-> audioChunks, audioBuffer |-> audioBuffer,
    isRecording |-> recIsRecording, useWebAudio |-> useWebAudio,
    mimeType |-> mimeType, sampleRate |-> sampleRate, pc |-> rpc,
    delivered |-> delivered, outcome |-> recOutcome, settleCount |-> settleCount,
    pc2 |-> rpc2, oldStream |-> oldStream, oldContext |-> oldContext ]

RecBecomes(r) ==
  /\ recStream' = r.stream
  /\ mediaRecorder' = r.mediaRecorder
  /\ recContext' = r.context
  /\ scriptProcessor' = r.scriptProcessor
  /\ sourceNode' = r.sourceNode
  /\ audioChunks' = r.audioChunks
  /\ audioBuffer' = r.audioBuffer
  /\ recIsRecording' = r.isRecording
  /\ useWebAudio' = r.useWebAudio
  /\ mimeType' = r.mimeType
  /\ sampleRate' = r.sampleRate
  /\ rpc' = r.pc
  /\ delivered' = r.delivered
  /\ recOutcome' = r.outcome
  /\ settleCount' = r.settleCount
  /\ rpc2' = r.pc2
  /\ oldStream' = r.oldStream
  /\ oldContext' = r.oldContext
  /\ UNCHANGED <<recEnvVars, streamVars, diarVars, uploadVars, liveVars, nativeVars>>

MsgNotRecording == <<"Not", "currently", "recording">>
MsgNoAudioData ==
  <<"No", "audio", "data", "recorded", ".", "Please", "ensure", "your",
    "microphone", "is", "working", ".">>
MsgNoMethod == <<"No", "recording", "method", "available">>
MsgRecorderError == <<"MediaRecorder", "error", ":", "Unknown", "error">>
MsgWebAudioUnsupported == <<"Web", "Audio", "API", "not", "supported">>

\* the promise of stopRecording settles; a settled promise stays as it is
Settle(r, outcome) ==
  IF r.outcome.kind = "pending"
    THEN [r EXCEPT !.outcome = outcome, !.settleCount = @ + 1]
    ELSE r

RecReject(r, message) ==
  Settle(r, [kind |-> "reject", type |-> "", size |-> 0, bytes |-> <<>>,
             message |-> message, captured |-> 0])

\* the platform calls of cleanup() that may fail: the two disconnects and
\* track.stop() by throwing, audioContext.close() by rejecting its promise
CleanupSteps == { "processor", "source", "track", "close" }

\* cleanup(), had a failing step been caught by the outer try alone: the
\* steps after it are skipped
RecCleanupWith_Unguarded(r, faults) ==
  LET a == IF r.scriptProcessor /\ "processor" \notin faults
             THEN [r EXCEPT !.scriptProcessor = FALSE] ELSE r
      aOk == ~(r.scriptProcessor /\ "processor" \in faults)
      b == IF aOk /\ a.sourceNode /\ "source" \notin faults
             THEN [a EXCEPT !.sourceNode = FALSE] ELSE a
      bOk == aOk /\ ~(a.sourceNode /\ "source" \in faults)
      c == IF bOk /\ b.stream = "live" /\ "track" \notin faults
             THEN [b EXCEPT !.stream = "released"] ELSE b
      cOk == bOk /\ ~(b.stream = "live" /\ "track" \in faults)
      d == IF cOk /\ c.context = "running" /\ "close" \notin faults
             THEN [c EXCEPT !.context = "closed"] ELSE c
      dOk == cOk /\ ~(c.context = "running" /\ "close" \in faults)
  IN IF dOk
       THEN [d EXCEPT !.mediaRecorder = "none", !.audioChunks = <<>>,
                      !.audioBuffer = <<>>]
       ELSE d

\* cleanup() when the platform calls in faults fail; a stream whose track
\* could not be stopped is "leaked", a context that could not be closed is
\* "orphaned": the recorder holds neither any more
RecCleanupWith(r, faults) ==
  [r EXCEPT !.scriptProcessor = FALSE, !.sourceNode = FALSE,
            !.stream = IF @ = "live"
                         THEN (IF "track" \in faults THEN "leaked" ELSE "released")
                         ELSE @,
            !.context = IF @ = "running"
                          THEN (IF "close" \in faults THEN "orphaned" ELSE "closed")
                          ELSE @,
            !.mediaRecorder = "none", !.audioChunks = <<>>, !.audioBuffer = <<>>]

\* cleanup() when every platform call succeeds
RecCleanup(r) == RecCleanupWith(r, {})

\* startRecording rejects: `Failed to start recording: ${error.message}`
StartRejects(r, message) ==
  [r EXCEPT !.pc = "startFailed"]

\* startWebAudioRecording()
StartWebAudioRecording(r) ==
  IF ~hasAudioContext
    THEN StartRejects(r, MsgWebAudioUnsupported)
    ELSE [r EXCEPT !.context = "running", !.sampleRate = ctxRate,
                   !.audioBuffer = <<>>, !.sourceNode = TRUE,
                   !.scriptProcessor = TRUE, !.isRecording = TRUE,
                   !.pc = "recording"]

\* the fallback of startRecording
StartWithWebAudio(r) == StartWebAudioRecording([r EXCEPT !.useWebAudio = TRUE])

\* the MediaRecorder branch, had it lacked its return
StartWithMediaRecorder_FallsThrough(r) ==
  StartWithWebAudio(
    [r EXCEPT !.mediaRecorder = "recording", !.mimeType = "audio/webm;codecs=opus",
              !.audioChunks = <<>>, !.useWebAudio = FALSE, !.isRecording = TRUE,
              !.pc = "recording"])

\* the MediaRecorder branch when constructor and start() succeed
StartWithMediaRecorder(r) ==
  [r EXCEPT !.mediaRecorder = "recording", !.mimeType = "audio/webm;codecs=opus",
            !.audioChunks = <<>>, !.useWebAudio = FALSE, !.isRecording = TRUE,
            !.pc = "recording"]

\* startRecording(), up to the await of getUserMedia
StartRecording ==
  /\ rpc = "new"
  /\ RecBecomes([Rec EXCEPT !.pc = "gum"])

\* getUserMedia rejects
RecGetUserMediaRejects(err) ==
  /\ rpc = "gum"
  /\ RecBecomes(StartRejects(Rec, err.message))

\* startRecording() from the stream getUserMedia gave: the strategy is
\* chosen and started
StartOnStream(r) ==
  CASE recEnv = "works" -> StartWithMediaRecorder(r)
    [] recEnv = "absent" -> StartWithWebAudio(r)
    [] recEnv = "ctorThrows" -> StartWithWebAudio(r)
    [] recEnv = "startThrows" ->
         StartWithWebAudio(
           [r EXCEPT !.mediaRecorder = "inactive",
                     !.mimeType = "audio/webm;codecs=opus",
                     !.audioChunks = <<>>])

\* getUserMedia resolves
RecGetUserMediaResolves ==
  /\ rpc = "gum"
  /\ RecBecomes(StartOnStream([Rec EXCEPT !.stream = "live"]))

\* the test of onaudioprocess, had it not looked at isRecording
KeepsChunk_ContextOnly(r) == r.context = "running"

\* the test of onaudioprocess
KeepsChunk(r) == r.isRecording /\ r.context = "running"

\* the chunks the capture graph delivers
RecChunks == { <<0, 0>>, <<500, -1000>>, <<1500>> }

\* scriptProcessor.onaudioprocess: events run while the node is connected,
\* and one already queued may still run after the disconnect of stop;
\* delivered lists the events, each with whether it came before the stop
RecOnAudioProcess(chunk) ==
  /\ rpc \in {"recording", "settling"}
  /\ useWebAudio
  /\ Len(delivered) < MaxChunks
  /\ LET r == IF KeepsChunk(Rec)
                THEN [Rec EXCEPT !.audioBuffer = Append(@, chunk)]
                ELSE Rec
     IN RecBecomes([r EXCEPT !.delivered =
                      Append(@, [chunk |-> chunk, during |-> (rpc = "recording")])])

\* sizes of the blobs of dataavailable events
DataSizes == { 0, 16000 }

\* mediaRecorder.ondataavailable: every second while recording, and once
\* more after stop()
RecOnDataAvailable(size) ==
  /\ \/ rpc = "recording" /\ mediaRecorder = "recording"
     \/ rpc = "stopping" /\ mediaRecorder = "inactive"
  /\ Len(audioChunks) < MaxChunks
  /\ RecBecomes(IF size > 0
                  THEN [Rec EXCEPT !.audioChunks = Append(@, size)]
                  ELSE Rec)

RECURSIVE Sum(_)
Sum(sizes) == IF sizes = <<>> THEN 0 ELSE Head(sizes) + Sum(Tail(sizes))

\* stopRecording(), up to the timer or the events it waits for
StopRecording ==
  /\ rpc \in {"new", "startFailed", "recording"}
  /\ recOutcome.kind = "pending"
  /\ RecBecomes(
       IF ~recIsRecording
         THEN RecReject([Rec EXCEPT !.pc = "refused"], MsgNotRecording)
       ELSE LET r == [Rec EXCEPT !.isRecording = FALSE] IN
         IF r.useWebAudio /\ r.context # "none"
           THEN [r EXCEPT !.scriptProcessor = FALSE, !.sourceNode = FALSE,
                          !.pc = "settling"]
         ELSE IF r.mediaRecorder # "none"
           THEN [r EXCEPT !.mediaRecorder = "inactive", !.pc = "stopping"]
         ELSE RecReject([r EXCEPT !.pc = "settled"], MsgNoMethod) )

\* the callback of the 150 ms timer of stopRecording
SettleTimer(r, faults) ==
  LET wav == ConvertToWAV(r.audioBuffer, r.sampleRate) IN
  IF r.audioBuffer = <<>>
    THEN RecReject(RecCleanupWith(r, faults), MsgNoAudioData)
  ELSE IF ~wav.ok
    THEN RecReject(RecCleanupWith(r, faults),
                   <<"Failed", "to", "convert", "audio", ":">> \o wav.message)
  ELSE Settle(RecCleanupWith(r, faults),
              [kind |-> "resolve", type |-> wav.type,
               size |-> Len(wav.bytes), bytes |-> wav.bytes,
               message |-> <<>>, captured |-> TotalLength(r.audioBuffer)])

\* the 150 ms timer of stopRecording fires
RecTimerFires ==
  /\ rpc = "settling"
  /\ RecBecomes(SettleTimer([Rec EXCEPT !.pc = "settled"], {}))

\* the handler stopRecording gives to mediaRecorder.onstop
OnStop(r, faults) ==
  Settle(RecCleanupWith(r, faults),
         [kind |-> "resolve", type |-> r.mimeType, size |-> Sum(r.audioChunks),
          bytes |-> <<>>, message |-> <<>>, captured |-> Len(r.audioChunks)])

\* mediaRecorder.onstop
RecOnStop ==
  /\ rpc = "stopping"
  /\ RecBecomes(OnStop([Rec EXCEPT !.pc = "settled"], {}))

\* the timer fires and platform calls of cleanup() fail
RecTimerFiresFaulty(faults) ==
  /\ rpc = "settling"
  /\ faults # {}
  /\ RecBecomes(SettleTimer([Rec EXCEPT !.pc = "settled"], faults))

\* mediaRecorder.onstop, and platform calls of cleanup() fail
RecOnStopFaulty(faults) ==
  /\ rpc = "stopping"
  /\ faults # {}
  /\ RecBecomes(OnStop([Rec EXCEPT !.pc = "settled"], faults))

\* mediaRecorder.onerror, before the stop event
RecOnError ==
  /\ rpc = "stopping"
  /\ recOutcome.kind = "pending"
  /\ RecBecomes(RecReject(Rec, MsgRecorderError))

InitRec ==
  /\ Fresh /\ NoRecognizer
  /\ NoJob
  /\ NoUpload /\ NoPage
  /\ NewRecorder
  /\ isBrave = FALSE
  /\ apiKeySet = FALSE
  /\ browserSupported = FALSE
  /\ recEnv \in RecorderEnvs
  /\ hasAudioContext \in BOOLEAN
  /\ ctxRate \in SampleRates

NextRec ==
  \/ StartRecording
  \/ \E err \in GumErrors : RecGetUserMediaRejects(err)
  \/ RecGetUserMediaResolves
  \/ \E chunk \in RecChunks : RecOnAudioProcess(chunk)
  \/ \E size \in DataSizes : RecOnDataAvailable(size)
  \/ StopRecording
  \/ RecTimerFires
  \/ RecOnStop
  \/ RecOnError

SpecRec == InitRec /\ [][NextRec]_vars

\* the recorder on a platform whose calls may fail during cleanup()
NextRecFaults ==
  \/ NextRec
  \/ \E faults \in SUBSET CleanupSteps : RecTimerFiresFaulty(faults)
  \/ \E faults \in SUBSET CleanupSteps : RecOnStopFaulty(faults)

SpecRecFaults == InitRec /\ [][NextRecFaults]_vars

(***************************************************************************)
(* The same AudioRecorder started again while the timer of its             *)
(* stopRecording is pending.  rpc stays with the first start and its stop, *)
(* rpc2 is the second start.                                               *)
(***************************************************************************)
\* startRecording() again, up to the await of getUserMedia
StartRecordingAgain ==
  /\ rpc = "settling"
  /\ rpc2 = "none"
  /\ RecBecomes([Rec EXCEPT !.pc2 = "gum"])

\* getUserMedia of the second start rejects
AgainGetUserMediaRejects(err) ==
  /\ rpc2 = "gum"
  /\ RecBecomes([Rec EXCEPT !.pc2 = StartRejects(Rec, err.message).pc])

\* getUserMedia of the second start resolves: the fields take the new stream
\* and, on the Web Audio strategy, the new context and an empty buffer
AgainGetUserMediaResolves ==
  /\ rpc2 = "gum"
  /\ LET r == StartOnStream([Rec EXCEPT !.stream = "live"]) IN
     RecBecomes([r EXCEPT !.pc = rpc, !.pc2 = r.pc,
                          !.oldStream = recStream,
                          !.oldContext = recContext])

NextRecReuse ==
  \/ NextRec
  \/ StartRecordingAgain
  \/ \E err \in GumErrors : AgainGetUserMediaRejects(err)
  \/ AgainGetUserMediaResolves

SpecRecReuse == InitRec /\ [][NextRecReuse]_vars


(***************************************************************************)
(* The two encoders applied to every buffer of the bounded sets.           *)
(***************************************************************************)
\* samples: 0, 1/2, 1, beyond 1, just above -1, just below 0, -1, beyond -1;
\* a signal runs through them in a cycle
Samples ==
  << 0, SampleScale \div 2, SampleScale, (3 * SampleScale) \div 2,
     1 - SampleScale, 0 - 1, 0 - SampleScale, 0 - (3 * SampleScale) \div 2 >>

\* the signal from position o on, cut into chunks of the given lengths
Chunked(o, lens) ==
  LET start[k \in 1..Len(lens)] ==
        IF k = 1 THEN o ELSE start[k - 1] + lens[k - 1]
  IN [k \in 1..Len(lens) |->
        [j \in 1..lens[k] |-> Samples[((start[k] + j - 1) % Len(Samples)) + 1]]]

\* lists of up to MaxChunks Float32Arrays of up to MaxChunkLen samples each
WavBuffers ==
  { Chunked(o, lens) :
      o \in 0..(Len(Samples) - 1),
      lens \in UNION { [1..n -> 0..MaxChunkLen] : n \in 0..MaxChunks } }

WavRates == { 16000, 44100, 48000 }

InitWav ==
  /\ Fresh /\ NoRecognizer
  /\ NoJob
  /\ NoUpload /\ NoPage
  /\ isBrave = FALSE
  /\ apiKeySet = FALSE
  /\ browserSupported = FALSE
  /\ recEnv = "absent"
  /\ hasAudioContext = TRUE
  /\ ctxRate \in WavRates
  /\ rpc = "wav"
  /\ recStream = "none"
  /\ mediaRecorder = "none"
  /\ recContext = "none"
  /\ scriptProcessor = FALSE
  /\ sourceNode = FALSE
  /\ audioChunks = <<>>
  /\ audioBuffer \in WavBuffers
  /\ recIsRecording = FALSE
  /\ useWebAudio = TRUE
  /\ mimeType = "audio/webm"
  /\ sampleRate = ctxRate
  /\ delivered = <<>>
  /\ rpc2 = "none"
  /\ oldStream = "none"
  /\ oldContext = "none"
  /\ recOutcome = [kind |-> "pending", type |-> "", size |-> 0, bytes |-> <<>>,
                   message |-> <<>>, captured |-> 0]
  /\ settleCount = 0

\* convertToWAV(this.audioBuffer, this.sampleRate)
ApplyConvertToWAV ==
  /\ rpc = "wav"
  /\ LET wav == ConvertToWAV(audioBuffer, sampleRate) IN
     RecBecomes([Rec EXCEPT !.pc = "encoded",
                   !.outcome = [kind |-> IF wav.ok THEN "resolve" ELSE "reject",
                                type |-> wav.type, size |-> Len(wav.bytes),
                                bytes |-> wav.bytes, message |-> wav.message,
                                captured |-> TotalLength(audioBuffer)]])

\* convertFloat32ToInt16 on the samples of the buffer
ApplyConvertFloat32ToInt16 ==
  /\ rpc = "wav"
  /\ LET int16Array == ConvertFloat32ToInt16(Flatten(audioBuffer)) IN
     RecBecomes([Rec EXCEPT !.pc = "int16",
                   !.outcome = [kind |-> "resolve", type |-> "int16",
                                size |-> Len(int16Array), bytes |-> int16Array,
                                message |-> <<>>,
                                captured |-> TotalLength(audioBuffer)]])

NextWav ==
  \/ ApplyConvertToWAV
  \/ ApplyConvertFloat32ToInt16

SpecWav == InitWav /\ [][NextWav]_vars


(***************************************************************************)
(* SpeechRecognitionService: the on-device recognizer on its own.          *)
(* recognition is the host's recognizer, results its list of segments; a   *)
(* confidence is held in hundredths.                                       *)
(***************************************************************************)
\* the words "um", "uh", "er", "ah" in either case
IsFiller(w) == w \in {"um", "Um", "uh", "Uh", "er", "Er", "ah", "Ah"}

IsTerminal(w) == w \in {".", "!", "?"}

\* String.toUpperCase on the first letter of the words of the model
Capitalize(w) ==
  CASE w = "one" -> "One"
    [] w = "two" -> "Two"
    [] w = "three" -> "Three"
    [] w = "four" -> "Four"
    [] w = "do" -> "Do"
    [] w = "not" -> "Not"
    [] w = "cannot" -> "Cannot"
    [] OTHER -> w

\* the table of contractions, in its order, for the words of the model; the
\* pattern is matched in either case
Contractions ==
  << [full |-> <<"do", "not">>, contracted |-> "don't"],
     [full |-> <<"cannot">>, contracted |-> "can't"] >>

\* text.replace(new RegExp(`\\b${full}\\b`, "gi"), contracted)
RECURSIVE ReplaceAll(_, _)
ReplaceAll(text, c) ==
  LET folded(k) == IF Capitalize(c.full[k]) = text[k] THEN c.full[k] ELSE text[k] IN
  IF text = <<>> THEN <<>>
  ELSE IF /\ Len(text) >= Len(c.full)
          /\ \A k \in 1..Len(c.full) : folded(k) = c.full[k]
    THEN <<c.contracted>> \o ReplaceAll(SubSeq(text, Len(c.full) + 1, Len(text)), c)
  ELSE <<Head(text)>> \o ReplaceAll(Tail(text), c)

RECURSIVE ApplyContractions(_, _)
ApplyContractions(text, k) ==
  IF k > Len(Contractions)
    THEN text
    ELSE ApplyContractions(ReplaceAll(text, Contractions[k]), k + 1)

ImproveTranscription(text) ==
  LET kept == SelectSeq(text, LAMBDA w : ~IsFiller(w))
      capitalized ==
        [k \in 1..Len(kept) |->
           IF k = 1 \/ IsTerminal(kept[k - 1]) THEN Capitalize(kept[k]) ELSE kept[k]]
      improved == ApplyContractions(capitalized, 1)
  IN IF text = <<>> THEN text
     ELSE IF improved # <<>> /\ ~IsTerminal(improved[Len(improved)])
       THEN Append(improved, ".")
     ELSE improved

\* the threshold of the confidence gate, in hundredths
ConfidenceThreshold == 70

\* the test of the gate, had it let the threshold itself pass
PassesGate_Inclusive(confidence) == confidence >= ConfidenceThreshold

\* "confidence > 0.7"
PassesGate(confidence) == confidence > ConfidenceThreshold

\* the loop of onresult from resultIndex on: the two transcripts it builds
RECURSIVE Collect(_, _, _)
Collect(list, i, final) ==
  IF i > Len(list) THEN <<>>
  ELSE (IF final /\ list[i].isFinal /\ PassesGate(list[i].confidence)
          THEN list[i].transcript
        ELSE IF ~final /\ ~list[i].isFinal THEN list[i].transcript
        ELSE <<>>)
       \o Collect(list, i + 1, final)

\* recognition.onresult: the calls of onResult it makes
OnResult(list, resultIndex) ==
  LET finalTranscript == Collect(list, resultIndex, TRUE)
      interimTranscript == Collect(list, resultIndex, FALSE)
  IN IF finalTranscript # <<>>
       THEN << [text |-> ImproveTranscription(finalTranscript), isFinal |-> TRUE] >>
     ELSE IF interimTranscript # <<>>
       THEN << [text |-> interimTranscript, isFinal |-> FALSE] >>
     ELSE <<>>

\* the message of the probe's catch, by the name of the error
ProbeErrorMessage(err) ==
  IF err.name = "NotAllowedError"
    THEN IF isBrave
           THEN <<"Microphone", "access", "denied", "in", "Brave", ".">>
           ELSE <<"Microphone", "access", "denied", ".", "Please", "allow",
                  "microphone", "permissions", "and", "refresh", "the", "page", ".">>
  ELSE IF err.name = "NotFoundError"
    THEN <<"No", "microphone", "found", ".", "Please", "connect", "a",
           "microphone", "and", "try", "again", ".">>
  ELSE IF err.name = "NotReadableError"
    THEN <<"Microphone", "is", "being", "used", "by", "another", "application", ".">>
  ELSE <<"Microphone", "error", ":">> \o err.message
         \o <<".", "Please", "check", "your", "microphone", "settings", ".">>

MsgFailedToStart ==
  <<"Failed", "to", "start", "speech", "recognition", ".">>

\* the errors getUserMedia raises
ProbeErrors ==
  GumErrors \cup
  { [name |-> "NotReadableError", message |-> <<"Could", "not", "start", "audio", "source">>],
    [name |-> "AbortError", message |-> <<"Starting", "audio", "failed">>] }

\* the recognizer service as one value
Native ==
  [ pc |-> nativePc, trace |-> nativeTrace, errs |-> nativeErrs,
    recognition |-> recognition, handlers |-> handlers, results |-> results,
    resultEvents |-> resultEvents, transcripts |-> transcripts ]

NativeBecomes(n) ==
  /\ nativePc' = n.pc
  /\ nativeTrace' = n.trace
  /\ nativeErrs' = n.errs
  /\ recognition' = n.recognition
  /\ handlers' = n.handlers
  /\ results' = n.results
  /\ resultEvents' = n.resultEvents
  /\ transcripts' = n.transcripts
  /\ UNCHANGED <<hasMediaDevices, streamVars, diarVars, uploadVars, liveVars, recVars>>

\* onError of start call i
NativeOnError(n, i, text) == [n EXCEPT !.errs[i] = Append(@, text)]

\* startRecognitionInternal: the handlers are set and recognition.start() is
\* called
StartRecognitionInternal(n, i) ==
  LET set == [n EXCEPT !.handlers = i, !.trace[i] = Append(@, "start")] IN
  IF n.recognition # "idle"
    THEN \* recognition.start() throws on a recognizer already started
         [NativeOnError(set, i, MsgFailedToStart) EXCEPT !.pc[i] = "startThrew"]
    ELSE [set EXCEPT !.recognition = "running", !.results = <<>>,
                     !.pc[i] = "started"]

\* the catch of the probe, had it gone on to start the recognizer
ProbeCatch_StartsAnyway(n, i, err) ==
  StartRecognitionInternal(
    NativeOnError([n EXCEPT !.trace[i] = Append(@, "probeFail")], i,
                  ProbeErrorMessage(err)), i)

\* .catch((error) => ...) of the probe
ProbeCatch(n, i, err) ==
  [NativeOnError([n EXCEPT !.trace[i] = Append(@, "probeFail")], i,
                 ProbeErrorMessage(err))
     EXCEPT !.pc[i] = err.name]

\* startRecognition(onResult_i, onError_i, onStart_i, onEnd_i), the i-th call
NativeStartRecognition(i) ==
  /\ nativePc[i] = "idle"
  /\ \A k \in Ids : k < i => nativePc[k] # "idle"
  /\ NativeBecomes(
       IF ~browserSupported
         THEN [NativeOnError(Native, i, MsgBrowserUnsupported(isBrave))
                 EXCEPT !.pc[i] = "unsupported"]
       ELSE IF hasMediaDevices
         THEN [Native EXCEPT !.pc[i] = "probing", !.trace[i] = Append(@, "probe")]
       ELSE StartRecognitionInternal(Native, i))

\* getUserMedia({ audio: true }) resolves
ProbeResolves(i) ==
  /\ nativePc[i] = "probing"
  /\ NativeBecomes(StartRecognitionInternal(
       [Native EXCEPT !.trace[i] = Append(@, "probeOk")], i))

\* getUserMedia({ audio: true }) rejects
ProbeRejects(i, err) ==
  /\ nativePc[i] = "probing"
  /\ NativeBecomes(ProbeCatch(Native, i, err))

\* stopRecognition(): the host returns what it has and then ends
NativeStopRecognition ==
  /\ browserSupported
  /\ NativeBecomes(IF recognition = "running"
                     THEN [Native EXCEPT !.recognition = "stopping"]
                     ELSE Native)

\* abortRecognition(): the host ends without a further result
NativeAbortRecognition ==
  /\ browserSupported
  /\ recognition # "idle"
  /\ NativeBecomes([Native EXCEPT !.recognition = "aborted"])

\* recognition.onend
HostEnd ==
  /\ recognition # "idle"
  /\ NativeBecomes([Native EXCEPT !.recognition = "idle"])

\* the word by which the k-th segment of a session is told from the others
Marker(k) == <<"one", "two", "three", "four">>[k]

\* what the host may hear in the k-th segment
Hypotheses(k) ==
  { <<"um", "do", "not", Marker(k)>>, <<"cannot", Marker(k), "?">> }

Confidences == { 65, ConfidenceThreshold, ConfidenceThreshold + 1 }

\* the first segment that is not final yet, or the place after the last
FirstOpen(list) ==
  IF \E k \in 1..Len(list) : ~list[k].isFinal
    THEN CHOOSE k \in 1..Len(list) :
           ~list[k].isFinal /\ \A j \in 1..(k - 1) : list[j].isFinal
    ELSE Len(list) + 1

\* a result event: the host adds a segment, as a hypothesis or final at
\* once, or makes its oldest hypothesis final; resultIndex is the place of
\* the change, and segments become final in their order
HostResult(transcript, confidence, final, fresh) ==
  /\ recognition \in {"running", "stopping"}
  /\ resultEvents < MaxResultEvents
  /\ LET k == IF fresh THEN Len(results) + 1 ELSE FirstOpen(results)
         segment == [transcript |-> transcript,
                     confidence |-> IF final THEN confidence ELSE 0,
                     isFinal |-> final, at |-> resultEvents + 1]
         list == IF k > Len(results)
                   THEN Append(results, segment)
                   ELSE [results EXCEPT ![k] = segment]
         calls == OnResult(list, k)
     IN /\ k <= MaxSegments
        /\ IF fresh
             THEN final => FirstOpen(results) > Len(results)
             ELSE FirstOpen(results) <= Len(results)
        /\ transcript \in Hypotheses(k)
        \* the confidence of a hypothesis is not looked at
        /\ ~final => confidence = ConfidenceThreshold
        /\ NativeBecomes(
             [Native EXCEPT
                !.results = list,
                !.resultEvents = @ + 1,
                !.transcripts =
                  @ \o [j \in 1..Len(calls) |->
                          [text |-> calls[j].text, isFinal |-> calls[j].isFinal,
                           at |-> resultEvents + 1, to |-> handlers]]])

\* the recognizer singleton in any browser
InitNative ==
  /\ Fresh
  /\ NoJob
  /\ NoUpload /\ NoPage /\ NoRecorder
  /\ NewRecognizer
  /\ hasMediaDevices \in BOOLEAN
  /\ isBrave \in BOOLEAN
  /\ apiKeySet = FALSE
  /\ browserSupported \in BOOLEAN

\* the start calls and the sessions of the host's recognizer
NextNative ==
  \/ \E i \in Ids : NativeStartRecognition(i)
  \/ \E i \in Ids : ProbeResolves(i)
  \/ \E i \in Ids : \E err \in ProbeErrors : ProbeRejects(i, err)
  \/ NativeStopRecognition
  \/ NativeAbortRecognition
  \/ HostEnd

SpecNative == InitNative /\ [][NextNative]_vars

\* the recognizer in a browser that has it, with the microphone granted
InitResults ==
  /\ Fresh
  /\ NoJob
  /\ NoUpload /\ NoPage /\ NoRecorder
  /\ NewRecognizer
  /\ hasMediaDevices = TRUE
  /\ isBrave = FALSE
  /\ apiKeySet = FALSE
  /\ browserSupported = TRUE

\* the sessions of the host's recognizer and their result events
NextResults ==
  \/ \E i \in Ids : NativeStartRecognition(i)
  \/ \E i \in Ids : ProbeResolves(i)
  \/ NativeStopRecognition
  \/ NativeAbortRecognition
  \/ HostEnd
  \/ \E transcript \in UNION { Hypotheses(k) : k \in 1..MaxSegments } :
       \E confidence \in Confidences : \E final, fresh \in BOOLEAN :
         HostResult(transcript, confidence, final, fresh)

SpecResults == InitResults /\ [][NextResults]_vars

(***************************************************************************)
(* Properties.                                                             *)
(***************************************************************************)
Last(seq) == seq[Len(seq)]

\* case folding of the words that occur in the texts of the model
Lower(w) ==
  CASE w = "Network" -> "network"
    [] OTHER -> w

LowerText(text) == [k \in 1..Len(text) |-> Lower(text[k])]

\* the text holds the word "network", in either case
ContainsNetwork(text) == Includes(LowerText(text), <<"network">>)

\* start call j's wrapped error handler receives an error in this step
ApiErrorArrives(j) == Len(apiErrs'[j]) = Len(apiErrs[j]) + 1

\* C1: an error from the remote backend whose text holds "network", arriving
\* while the remote backend is the one in use, sets apiFailed, clears useAPI
\* and starts the on-device recognizer exactly once, with the callbacks of the
\* start call whose handler got the error (or, when the on-device recognizer
\* is not supported, reports the combined error and starts nothing); and
\* without resetFallback the orchestrator does not prefer the remote backend
\* again.
C1_NetworkErrorFallsBackOnce ==
  [][ /\ \A j \in Ids :
           ( /\ ApiErrorArrives(j)
             /\ ContainsNetwork(Last(apiErrs'[j]))
             /\ useAPI /\ ~apiFailed )
           => /\ apiFailed' /\ ~useAPI'
              /\ IF browserSupported
                   THEN /\ currentService' = "browser"
                        /\ browserCalls' = [browserCalls EXCEPT ![j] = @ + 1]
                        /\ errs' = errs
                   ELSE /\ browserCalls' = browserCalls
                        /\ errs' = [errs EXCEPT ![j] = Append(@, MsgBlockedNoBrowser)]
      /\ (~PrefersRemote(State) /\ resets' = resets) => ~PrefersRemote(State)'
    ]_vars

\* C1 witness: a network-shaped error of the remote backend has switched the
\* orchestrator to the on-device recognizer, started with that call's callbacks
C1_Witness ==
  \E j \in Ids :
    /\ fbBy # 0
    /\ apiFailed /\ ~useAPI
    /\ currentService = "browser"
    /\ browserCalls[j] = 1
    /\ apiErrs[j] # <<>>
    /\ ContainsNetwork(Last(apiErrs[j]))

RemoteStarts == { i \in Ids : route[i] = "api" }

\* C2: once apiFailed is true, every step other than resetFallback keeps it
\* true, keeps getActiveService() at "browser" and hands no start call to the
\* remote client; and the flag is cleared by resetFallback alone.
C2_FallbackFlagSticky ==
  [][ /\ (apiFailed /\ resets' = resets)
           => /\ apiFailed'
              /\ GetActiveService(State)' = "browser"
              /\ RemoteStarts' = RemoteStarts
      /\ (apiFailed /\ ~apiFailed') => resets' = resets + 1
    ]_vars

\* C2 witness: after the fallback a later start call went to the on-device
\* recognizer, and the language was set in between
C2_Witness ==
  /\ apiFailed
  /\ resets = 0
  /\ browserLang = "es-ES"
  /\ \E i \in Ids : route[i] = "browser" /\ browserCalls[i] = 1

\* why start call i failed, as the environment made it fail
Cause(i) ==
  CASE failKind[i] = "permission" -> "permission"
    [] failKind[i] = "device" -> "device"
    [] failKind[i] = "noToken" -> "service"
    [] failKind[i] = "http401" -> IF apiKeySet THEN "auth" ELSE "config"
    [] failKind[i] = "blocked" -> IF apiKeySet THEN "network" ELSE "config"
    [] OTHER -> "none"

\* C3: the orchestrator falls back only on a start that failed because the
\* network path was blocked; a permission, device, configuration or service
\* authentication failure causes no fallback.
C3_FallbackOnlyWhenBlocked ==
  \A i \in Ids :
    (pc[i] = "failed" /\ Cause(i) # "network") => fbBy # i

InProgress(i) ==
  \/ pc[i] \in {"gum", "proxy", "direct"}
  \/ pc[i] = "sock" /\ sockState[i] \in {"CONNECTING", "OPEN"}

\* C4: at most one start call is in progress or capturing, at most one
\* microphone stream is live and at most one connection is connecting or open.
C4_AtMostOneCaptureSession ==
  /\ Cardinality({ i \in Ids : InProgress(i) }) <= 1
  /\ Cardinality({ i \in Ids : trackLive[i] }) <= 1
  /\ Cardinality({ i \in Ids : sockState[i] \in {"CONNECTING", "OPEN"} }) <= 1

LifecycleOver(i) == pc[i] = "failed" \/ sockState[i] = "CLOSED"

\* C5: onEnd of a start call is never invoked twice, and it has been invoked
\* once when the call's lifecycle is over (the start failed, or its
\* connection is closed).
C5_OnEndExactlyOnce ==
  \A i \in Ids :
    /\ endCount[i] <= 1
    /\ LifecycleOver(i) => endCount[i] = 1

FrameWrites(k) == { n \in 1..Len(sockOut[k]) : sockOut[k][n][1] = "frame" }

\* C6: a frame is written to a connection only in the step in which it
\* arrives and only if that connection is then open and is the client's
\* current one; a frame that arrives otherwise is written nowhere.
C6_FramesOnlyWhileOpen ==
  [][ /\ \A k \in Ids :
           (Len(sockOut'[k]) > Len(sockOut[k]) /\ Last(sockOut'[k])[1] = "frame")
           => /\ sockState[k] = "OPEN" /\ socket = k /\ isRecording
              /\ frameNo' = frameNo + 1
              /\ Last(sockOut'[k]) = <<"frame", frameNo', "OPEN">>
              /\ Len(sockOut'[k]) = Len(sockOut[k]) + 1
      /\ (frameNo' # frameNo /\ ~(socket # 0 /\ sockState[socket] = "OPEN"))
           => sockOut' = sockOut
    ]_vars

\* C6 witness: the first frame arrived too early and was dropped, the second
\* was written to the open connection
C6_Witness ==
  \E k \in Ids :
    /\ frameNo = 2
    /\ \E n \in FrameWrites(k) : sockOut[k][n][2] = 2
    /\ \A j \in Ids : \A n \in FrameWrites(j) : sockOut[j][n][2] # 1

ConfigErrorText == <<"Error", ":">> \o MsgConfig

\* some caller's onError received a text that holds the given one
Delivered(text) ==
  \E j \in Ids : \E n \in 1..Len(errs[j]) : Includes(errs[j][n], text)

\* C8: the direct token request is made only after the request to the
\* intermediary was made and failed; a connection exists only with a token
\* that one of the two requests returned; and when both failed and no local
\* credential is configured the start has failed with the configuration
\* error and without a connection.
C8_TokenAcquisition ==
  \A i \in Ids :
    /\ (\E n \in 1..Len(tokenTrace[i]) : tokenTrace[i][n] = "directCall")
         => SubSeq(tokenTrace[i], 1, 3) = <<"proxyCall", "proxyFail", "directCall">>
    /\ sockState[i] # "none"
         => \/ token[i] = "proxy" /\ tokenTrace[i] = <<"proxyCall", "proxyOk">>
            \/ /\ token[i] = "direct"
               /\ tokenTrace[i] = <<"proxyCall", "proxyFail", "directCall", "directOk">>
    /\ ( /\ tokenTrace[i] = <<"proxyCall", "proxyFail", "directCall", "directFail">>
         /\ ~apiKeySet )
         => /\ pc[i] = "failed"
            /\ sockState[i] = "none"
            /\ Delivered(ConfigErrorText)

\* C8 witness: both requests failed without a local credential, and (on
\* another start call) the direct request supplied the token of a connection
C8_Witness ==
  /\ ~apiKeySet
  /\ \E i \in Ids :
       tokenTrace[i] = <<"proxyCall", "proxyFail", "directCall", "directFail">>
  /\ \E i \in Ids : token[i] = "direct" /\ sockState[i] = "OPEN"

SubmitAccepted == polls > 0

\* C9: the client never polls again after a terminal status, and a call whose
\* status requests were all answered with a status has polled once per status
\* of the job, up to and including the first terminal one; it has returned
\* the formatted result if that status is completed and has thrown the
\* failure that carries the service's error text if it is error.
C9_PollsUntilTerminal ==
  /\ polls <= Len(script) + badPolls
  /\ (dpc = "done" /\ SubmitAccepted /\ badPolls = 0)
       => /\ polls = Len(script)
          /\ polled = script
          /\ Last(script) = "completed"
               => dOutcome = [kind |-> "return", value |-> FormatResult(jobPayload)]
          /\ Last(script) = "error"
               => /\ dOutcome.kind = "throw"
                  /\ dOutcome.value = <<<<"Transcription", "error", ":">> \o jobError>>

\* C9 witness: the job reported queued, processing, processing, completed and
\* the call returned the formatted result after four polls
C9_Witness ==
  /\ dpc = "done"
  /\ script = <<"queued", "processing", "processing", "completed">>
  /\ polls = 4
  /\ badPolls = 0
  /\ dOutcome.kind = "return"
  /\ jobPayload.hasUtterances
  /\ dOutcome.value = << <<"[", "Speaker", "A", "]", "hi">>,
                         <<"[", "Speaker", "B", "]", "there">> >>

\* C10: a call that has thrown after its job was submitted has polled the
\* explicit status error last; a failed status request alone ends no job.
C10_ThrowsOnlyOnErrorStatus ==
  (dpc = "done" /\ dOutcome.kind = "throw" /\ SubmitAccepted)
    => (polled # <<>> /\ Last(polled) = "error")

(***************************************************************************)
(* uploadAudio.                                                            *)
(***************************************************************************)
\* the kinds of the entries of the current call's trace
TraceKinds == { uTrace[k][1] : k \in 1..Len(uTrace) }

ProxyCalled == "proxy" \in TraceKinds
ProxyFailed == TraceKinds \cap ProxyFailures # {}
DirectSent == "direct" \in TraceKinds

\* C11: the path of an upload follows from the size alone: under the proxy
\* threshold the callable is called first; from the threshold up to the cap
\* no call of the callable is made and the request made, if any, is the
\* direct one; above the cap the call fails with the size error and makes no
\* request at all.
C11_PathFromSizeAlone ==
  upc # "idle" =>
    /\ (0 < uSize /\ uSize < firebaseFunctionsMaxSize)
         => (uTrace # <<>> /\ uTrace[1][1] = "proxy")
    /\ (firebaseFunctionsMaxSize <= uSize /\ uSize <= assemblyAIMaxSize)
         => (~ProxyCalled /\ (uTrace # <<>> => uTrace[1][1] = "direct"))
    /\ uSize > assemblyAIMaxSize
         => /\ upc = "done" /\ uTrace = <<>>
            /\ uOutcome.kind = "throw"
            /\ Includes(uOutcome.message, <<"too", "large">>)

\* C12: for a blob under the proxy threshold the direct request is sent if
\* and only if the callable failed (and a credential is there to send it
\* with); the URL returned is the one of the answer that succeeded, which is
\* the last entry of the trace; when the callable failed and no credential
\* is configured the call fails with the configuration error and no direct
\* request is sent.
C12_DirectOnlyAfterProxyFailed ==
  (upc # "idle" /\ 0 < uSize /\ uSize < firebaseFunctionsMaxSize) =>
    /\ DirectSent <=> (ProxyFailed /\ apiKeySet)
    /\ (ProxyFailed /\ ~apiKeySet)
         => /\ upc = "done" /\ uOutcome.kind = "throw"
            /\ Includes(uOutcome.message, MsgUploadConfig)
    /\ uOutcome.kind = "return"
         => /\ Last(uTrace)[1] \in {"proxy-ok", "direct-ok"}
            /\ Last(uTrace)[2] = uOutcome.url
            /\ (Last(uTrace)[1] = "proxy-ok") <=> ~ProxyFailed
            /\ Cardinality({ k \in 1..Len(uTrace) :
                               uTrace[k][1] \in {"proxy-ok", "direct-ok"} }) = 1

\* a small blob whose callable failed and whose direct upload returned a URL
C12_Witness ==
  /\ 0 < uSize /\ uSize < firebaseFunctionsMaxSize
  /\ ProxyFailed /\ DirectSent
  /\ uOutcome.kind = "return" /\ uOutcome.url = "upload-2"

(***************************************************************************)
(* Formatting of a completed job.                                          *)
(***************************************************************************)
\* L is the label the formatting rule gives to a speaker: the letter whose
\* position is congruent to the index modulo 26, "Unknown" for null, the
\* value itself for a string that is no number
IsLabelOf(L, speaker) ==
  CASE speaker.kind = "null" -> L = "Unknown"
    [] speaker.kind = "str" -> L = speaker.s
    [] OTHER -> \E j \in 0..25 :
                  /\ \E q \in 0..(speaker.n \div 26) : speaker.n = 26 * q + j
                  /\ L = Letters[j + 1]

\* C13: the result of a completed job is the raw text when the job carries
\* no utterance list; otherwise it has one line "[Speaker L] text" per
\* utterance, in utterance order, L being the speaker's label; label(0) = "A"
\* and label(i) = label(i + 26) for every index i >= 0.
C13_ResultFormatting ==
  /\ GetSpeakerLabel(NumSpeaker(0)) = "A"
  /\ \A i \in 0..MaxSpeakerIndex :
       GetSpeakerLabel(NumSpeaker(i)) = GetSpeakerLabel(NumSpeaker(i + 26))
  /\ (dpc = "done" /\ dOutcome.kind = "return") =>
       IF ~jobPayload.hasUtterances
         THEN dOutcome.value = jobPayload.text
         ELSE /\ Len(dOutcome.value) = Len(jobPayload.utterances)
              /\ \A k \in 1..Len(jobPayload.utterances) :
                   LET u == jobPayload.utterances[k]
                       line == dOutcome.value[k]
                   IN /\ Len(line) = 4 + Len(u.text)
                      /\ SubSeq(line, 1, 2) = <<"[", "Speaker">>
                      /\ IsLabelOf(line[3], u.speaker)
                      /\ line[4] = "]"
                      /\ SubSeq(line, 5, Len(line)) = u.text

\* a completed job whose first utterance has speaker index 27 and whose
\* second has none
C13_Witness ==
  /\ dpc = "done" /\ dOutcome.kind = "return"
  /\ jobPayload.hasUtterances
  /\ Len(jobPayload.utterances) = 2
  /\ jobPayload.utterances[1].speaker = NumSpeaker(27)
  /\ dOutcome.value = << <<"[", "Speaker", "B", "]", "hi">>,
                         <<"[", "Speaker", "Unknown", "]", "there">> >>

(***************************************************************************)
(* LiveSession: the job submitted, and the errors shown.                   *)
(***************************************************************************)
\* C14: the job submitted for the page's call transcribeWithDiarization(
\* uploadUrl, speakerCount, language) carries that URL, speaker labels
\* requested, that speaker count, and the backend code of that language,
\* whatever languages were selected or set before.
C14_JobCarriesCallersLanguage ==
  (lpc \in {"transcribing", "shown"} /\ dpc # "idle") =>
    /\ dRequest.audio_url = liveArgs.audioUrl
    /\ dRequest.speaker_labels
    /\ dRequest.speakers_expected = liveArgs.speakerCount
    /\ dRequest.language_code = LanguageMap(liveArgs.language)

\* the three messages the page translates errors into
Translations == { MsgTakingTooLong, MsgCheckConnection, MsgAuthError }

\* C15: an error of the upload stage is shown with its "Upload failed"
\* prefix and the upload error text intact; the timeout, network and
\* authentication messages are shown for errors of the transcription stage
\* only.
C15_UploadErrorsShownIntact ==
  /\ uiStage = "upload" =>
       /\ Includes(uiError, <<"Upload", "failed", ":">> \o uOutcome.message)
       /\ uiError = MsgAnalysisFailed \o stageError
  /\ (\E m \in Translations : uiError = MsgAnalysisFailed \o m)
       => uiStage = "transcription"

(***************************************************************************)
(* AudioRecorder.                                                          *)
(***************************************************************************)
\* the native recorder is recording
NativeActive == mediaRecorder = "recording"

\* the sample-accumulation graph is connected and running
WebAudioActive == scriptProcessor /\ sourceNode /\ recContext = "running"

StrategyType == IF useWebAudio THEN "audio/wav" ELSE mimeType

\* the stop of a recording session settled, and not by an error event of
\* the native recorder
StopSettled == rpc = "settled" /\ recOutcome.message # MsgRecorderError

\* C17: stopRecording on a recording session settles once; it resolves with
\* an artifact of size > 0 and of the strategy's type when audio was
\* captured, and rejects with the empty-recording error when no sample and
\* no recorder chunk was captured.
C17_StopSettlesOnce ==
  /\ settleCount <= 1
  /\ rpc = "settled" => settleCount = 1
  /\ StopSettled =>
       /\ recOutcome.kind = "resolve"
            => /\ recOutcome.size > 0
               /\ recOutcome.type = StrategyType
               /\ recOutcome.captured > 0
       /\ recOutcome.kind = "reject"
            => Includes(recOutcome.message, <<"No", "audio", "data">>)

\* the chunks the callback delivered between start and stop
DeliveredDuring ==
  LET idx == { k \in 1..Len(delivered) : delivered[k].during }
      f[k \in 0..Len(delivered)] ==
        IF k = 0 THEN <<>>
        ELSE IF k \in idx THEN Append(f[k - 1], delivered[k].chunk)
        ELSE f[k - 1]
  IN f[Len(delivered)]

\* the 16-bit sample at a byte offset of a file
Int16At(bytes, offset) ==
  LET u == bytes[offset + 1] + 256 * bytes[offset + 2]
  IN IF u >= 32768 THEN u - 65536 ELSE u

\* C18: with the Web Audio strategy the artifact holds the samples of the
\* chunks delivered between start and stop, all of them, once each, in the
\* order of arrival; a stop after at least one chunk yields an artifact.
C18_ArtifactHoldsDeliveredChunks ==
  (rpc = "settled" /\ useWebAudio) =>
    LET samples == Flatten(DeliveredDuring) IN
    /\ recOutcome.kind = "resolve" <=> samples # <<>>
    /\ recOutcome.kind = "resolve" =>
         /\ Len(recOutcome.bytes) = 44 + 2 * Len(samples)
         /\ \A k \in 1..Len(samples) :
              Int16At(recOutcome.bytes, 44 + 2 * (k - 1)) = EncodeSample(samples[k])

\* two chunks delivered while recording, both in the artifact
C18_Witness ==
  /\ rpc = "settled" /\ useWebAudio
  /\ recOutcome.kind = "resolve"
  /\ Len(DeliveredDuring) = 2
  /\ DeliveredDuring[1] # DeliveredDuring[2]

(***************************************************************************)
(* The WAV container and the sample encoding.                              *)
(***************************************************************************)
Uint16At(bytes, offset) == bytes[offset + 1] + 256 * bytes[offset + 2]

Uint32At(bytes, offset) ==
  bytes[offset + 1] + 256 * bytes[offset + 2] + 65536 * bytes[offset + 3]
    + 16777216 * bytes[offset + 4]

\* C19: for chunks with N > 0 samples in total and sample rate r the file
\* has 44 + 2N bytes; read little-endian, its header holds RIFF size
\* 36 + 2N, fmt size 16, format 1, 1 channel, rate r, byte rate 2r, block
\* align 2, 16 bits per sample and data size 2N; N samples of two bytes
\* follow.
C19_WavLayout ==
  (rpc = "encoded" /\ TotalLength(audioBuffer) > 0) =>
    LET N == TotalLength(audioBuffer)
        b == recOutcome.bytes
    IN /\ recOutcome.kind = "resolve"
       /\ Len(b) = 44 + 2 * N
       /\ \A k \in 1..Len(b) : b[k] \in 0..255
       /\ SubSeq(b, 1, 4) = Ascii("RIFF")
       /\ Uint32At(b, 4) = 36 + 2 * N
       /\ SubSeq(b, 9, 12) = Ascii("WAVE")
       /\ SubSeq(b, 13, 16) = Ascii("fmt ")
       /\ Uint32At(b, 16) = 16
       /\ Uint16At(b, 20) = 1
       /\ Uint16At(b, 22) = 1
       /\ Uint32At(b, 24) = sampleRate
       /\ Uint32At(b, 28) = 2 * sampleRate
       /\ Uint16At(b, 32) = 2
       /\ Uint16At(b, 34) = 16
       /\ SubSeq(b, 37, 40) = Ascii("data")
       /\ Uint32At(b, 40) = 2 * N
       /\ Len(b) - 44 = 2 * N

\* a file of four samples at 48 kHz
C19_Witness ==
  /\ rpc = "encoded" /\ TotalLength(audioBuffer) = 4 /\ sampleRate = 48000
  /\ Len(recOutcome.bytes) = 52

\* v is the 16-bit value of sample x: the clamped sample scaled by 0x8000
\* when negative and by 0x7FFF otherwise, cut to an integer; it lies in
\* [-32768, 32767]; decoded by the same scale it is within 1/32767 of the
\* clamped sample
EncodesWithin(v, x) ==
  LET c == Clamp(x) IN
  /\ 0 - SampleScale <= c /\ c <= SampleScale
  /\ v \in (0 - 32768)..32767
  /\ IF c < 0
       THEN /\ (v - 1) * SampleScale < c * 32768 /\ c * 32768 <= v * SampleScale
            /\ (v * SampleScale - c * 32768) * 32767 <= SampleScale * 32768
       ELSE /\ v * SampleScale <= c * 32767 /\ c * 32767 < (v + 1) * SampleScale
            /\ c * 32767 - v * SampleScale <= SampleScale

\* C20: every sample of every buffer is clamped to [-1, 1] and scaled to a
\* signed 16-bit integer, by 0x8000 when negative and by 0x7FFF otherwise;
\* the value lies in [-32768, 32767] and decodes to within 1/32767 of the
\* clamped sample; in the WAV file and in convertFloat32ToInt16 alike.
C20_SampleEncoding ==
  LET samples == Flatten(audioBuffer) IN
  /\ (rpc = "encoded" /\ samples # <<>>) =>
       \A k \in 1..Len(samples) :
         EncodesWithin(Int16At(recOutcome.bytes, 44 + 2 * (k - 1)), samples[k])
  /\ rpc = "int16" =>
       /\ Len(recOutcome.bytes) = Len(samples)
       /\ \A k \in 1..Len(samples) : EncodesWithin(recOutcome.bytes[k], samples[k])

\* a file with a sample beyond 1 and one just above -1
C20_Witness ==
  /\ rpc = "encoded"
  /\ Flatten(audioBuffer) = << (3 * SampleScale) \div 2, 1 - SampleScale >>
  /\ Int16At(recOutcome.bytes, 44) = 32767

(***************************************************************************)
(* The on-device recognizer.                                               *)
(***************************************************************************)
\* the text holds the word of the k-th segment
Mentions(text, k) ==
  \E n \in 1..Len(text) : text[n] \in {Marker(k), Capitalize(Marker(k))}

\* the segments the host made final with a confidence of 0.7 or less
DroppedSegments ==
  { k \in 1..Len(results) :
      results[k].isFinal /\ results[k].confidence <= ConfidenceThreshold }

\* C21: a segment the host marks final with a top-alternative confidence of
\* 0.7 or less is in no final event and in no partial event made when it
\* became final or later; so a final event holds only segments whose
\* confidence is strictly greater than 0.7.
C21_LowConfidenceFinalDropped ==
  \A k \in DroppedSegments :
    \A n \in 1..Len(transcripts) :
      transcripts[n].at >= results[k].at => ~Mentions(transcripts[n].text, k)

\* a final segment of confidence 0.65 was dropped in a result event that
\* made a partial event of another segment, and a final event was made
C21_Witness ==
  /\ \E k \in DroppedSegments :
       /\ results[k].confidence = 65
       /\ \E n \in 1..Len(transcripts) :
            transcripts[n].at = results[k].at /\ ~transcripts[n].isFinal
  /\ \E k \in 1..Len(results) : \E n \in 1..Len(transcripts) :
       /\ results[k].isFinal /\ results[k].confidence = ConfidenceThreshold + 1
       /\ transcripts[n].isFinal /\ Mentions(transcripts[n].text, k)

\* step a comes before step b in the trace of a start call
Before(trace, a, b) ==
  \E m, n \in 1..Len(trace) : m < n /\ trace[m] = a /\ trace[n] = b

Has(trace, a) == \E m \in 1..Len(trace) : trace[m] = a

ProbeCauses == { "NotAllowedError", "NotFoundError", "NotReadableError" }

\* when the probe of start call i failed: the host recognizer was not
\* started by it, and its error callback got one message, the one of the cause
ProbeFailureReported(i) ==
  Has(nativeTrace[i], "probeFail") =>
    /\ ~Has(nativeTrace[i], "start")
    /\ Len(nativeErrs[i]) = 1
    /\ nativePc[i] = "NotAllowedError" =>
         Includes(nativeErrs[i][1], <<"access", "denied">>)
    /\ nativePc[i] = "NotFoundError" =>
         Includes(nativeErrs[i][1], <<"No", "microphone", "found">>)
    /\ nativePc[i] = "NotReadableError" =>
         Includes(nativeErrs[i][1], <<"used", "by", "another", "application">>)
    /\ \A j \in Ids :
         /\ nativePc[i] \in ProbeCauses /\ nativePc[j] \in ProbeCauses
         /\ nativePc[i] # nativePc[j]
         => nativeErrs[i] # nativeErrs[j]

\* C22 as stated: the host recognizer is started only after the microphone
\* probe has run and succeeded; when the probe fails the host recognizer is
\* never started and the error callback is invoked exactly once with the
\* message of the cause, distinct for permission denied, device not found
\* and device busy.
C22_ProbeAlwaysBeforeStart ==
  \A i \in Ids :
    /\ Has(nativeTrace[i], "start") => Before(nativeTrace[i], "probeOk", "start")
    /\ ProbeFailureReported(i)

\* C22 amended: on a platform that offers getUserMedia the host recognizer
\* is started only after the probe has succeeded, and a failed probe is
\* reported as above without a start; a platform without getUserMedia gets
\* the recognizer started without a probe.
C22_ProbeBeforeStartWhereOffered ==
  \A i \in Ids :
    /\ hasMediaDevices /\ Has(nativeTrace[i], "start") =>
         nativeTrace[i] = <<"probe", "probeOk", "start">>
    /\ ~hasMediaDevices /\ nativePc[i] # "idle" /\ browserSupported =>
         nativeTrace[i] = <<"start">>
    /\ ProbeFailureReported(i)

\* two start calls whose probes failed, one for a busy device and one for a
\* denied permission
C22_Witness ==
  \E i, j \in Ids :
    /\ nativePc[i] = "NotReadableError" /\ nativePc[j] = "NotAllowedError"
    /\ Len(nativeErrs[i]) = 1 /\ Len(nativeErrs[j]) = 1

(***************************************************************************)
(* The poll loop of transcribeWithDiarization in time.                     *)
(***************************************************************************)
\* status requests made and not answered yet
InFlight == polls - served - badPolls

PollMade == polls' = polls + 1

\* C23 as stated: every status request, the first one too, is made when the
\* 3 s timer of the loop has fired, and at most one status request is in
\* flight.
C23_SleepBeforeEveryPoll ==
  /\ [](InFlight \in {0, 1})
  /\ [][PollMade => dpc = "sleep"]_vars

\* C23 amended: the first status request is made as soon as the submission
\* is accepted; every later one is made when the 3 s timer set after the
\* answer to the one before has fired; at most one status request is in
\* flight, and none while the timer runs.
C23_SleepBetweenPolls ==
  /\ [](InFlight \in {0, 1} /\ (InFlight = 1 <=> dpc = "poll"))
  /\ [][/\ PollMade => \/ dpc = "submit" /\ polls = 0
                       \/ dpc = "sleep" /\ polls > 0
        /\ dpc' = "sleep" /\ dpc # "sleep" => dpc = "poll" /\ InFlight' = 0]_vars

\* the third status request is in flight: two timers have fired
C23_Witness ==
  /\ polls = 3 /\ served = 2 /\ badPolls = 0
  /\ dpc = "poll"
  /\ polled = <<"queued", "processing">>

\* the job's last status is terminal
Terminates(sc) == Last(sc) \in {"completed", "error"}

\* C24: a call whose job was accepted ends only when a status request was
\* answered with completed or error, or when a request failed; it ends once
\* the service reports a terminal status, and against a service that
\* reports processing for ever it polls for ever unless a request fails.
C24_BoundedOnlyByTheService ==
  /\ []((dpc = "done" /\ SubmitAccepted) =>
          \/ polled # <<>> /\ Last(polled) \in {"completed", "error"}
          \/ dOutcome.kind = "throw" /\ badPolls > 0)
  /\ Terminates(script) => ((dpc = "submit") ~> (dpc = "done"))
  /\ ~Terminates(script) =>
       /\ []((dpc = "done" /\ SubmitAccepted) => dOutcome.kind = "throw")
       /\ []((dpc = "sleep") => <>(dpc = "poll"))
       /\ []((dpc = "poll") => <>(dpc \in {"sleep", "done"}))

\* a call against a service that reports processing for ever has made more
\* status requests than the counters hold and is still polling
C24_Witness ==
  /\ ~Terminates(script)
  /\ polls = PollCap /\ served = PollCap
  /\ dpc = "poll"
  /\ dOutcome.kind = "pending"

(***************************************************************************)
(* AudioRecorder.cleanup.                                                  *)
(***************************************************************************)
\* the recorder holds no node, stream, recorder, context, chunk or sample
Cleared(r) ==
  /\ ~r.scriptProcessor /\ ~r.sourceNode
  /\ r.stream # "live" /\ r.context # "running"
  /\ r.mediaRecorder = "none"
  /\ r.audioChunks = <<>> /\ r.audioBuffer = <<>>

\* C25: whichever platform calls fail, cleanup leaves every reference
\* cleared and runs the steps that do not fail (the tracks are stopped, the
\* context is closed), and a second cleanup changes nothing; so it is once
\* stopRecording has run it.
C25_CleanupIdempotentAndGuarded ==
  /\ \A f1 \in SUBSET CleanupSteps :
       LET once == RecCleanupWith(Rec, f1) IN
       /\ Cleared(once)
       /\ (recStream = "live" /\ "track" \notin f1) => once.stream = "released"
       /\ (recContext = "running" /\ "close" \notin f1) => once.context = "closed"
       /\ \A f2 \in SUBSET CleanupSteps : RecCleanupWith(once, f2) = once
  /\ rpc = "settled" =>
       /\ Cleared(Rec)
       /\ \A f \in SUBSET CleanupSteps : RecCleanupWith(Rec, f) = Rec

\* a stop on the Web Audio strategy was settled although the disconnect of
\* the processing node, the stop of the track and the close of the context
\* all failed
C25_Witness ==
  /\ rpc = "settled" /\ useWebAudio
  /\ recStream = "leaked" /\ recContext = "orphaned"
  /\ recOutcome.kind = "resolve"

(***************************************************************************)
(* The streaming client after stopRecognition.                             *)
(***************************************************************************)
\* C26: while the caller's last call to the streaming client is
\* stopRecognition, isRecording is false and no connection is open, whatever
\* the start calls made before the stop were waiting for.
C26_StoppedStaysStopped ==
  afterStop => /\ ~isRecording
               /\ \A k \in Ids : sockState[k] # "OPEN"

(***************************************************************************)
(* The orchestrator's two backends.                                        *)
(***************************************************************************)
RemoteRunning == \E k \in Ids : sockState[k] = "OPEN"

\* the state hybrid.stopRecognition() leaves
HybridStopped ==
  IF currentService = "api" THEN StopRecognition(State)
  ELSE IF currentService = "browser" THEN BrowserStopRecognition(State)
  ELSE State

\* C29: the remote client and the on-device recognizer never both hold a
\* running session, and after stopRecognition() neither holds one.
C29_OneBackendAndStopStopsAll ==
  /\ ~(RemoteRunning /\ browserActive)
  /\ LET r == HybridStopped IN
       /\ ~r.browserActive
       /\ \A k \in Ids : r.sockState[k] # "OPEN"

\* C30: while the on-device recognizer runs in place of the remote backend
\* that failed, its language is the last one given to setLanguage, if any was.
C30_FallbackKeepsLanguage ==
  (fbBy # 0 /\ apiFailed /\ currentService = "browser" /\ browserActive
     /\ requested # "none")
    => browserLang = requested

(***************************************************************************)
(* The microphone after a failed start and after a settled stop.           *)
(***************************************************************************)
\* C28: when startRecording has rejected, and when the promise of
\* stopRecording has settled, the tracks of the acquired stream are stopped
\* and the recorder holds no stream, no MediaRecorder and no audio context.
C28_NeverLeaksTheMicrophone ==
  (rpc = "startFailed" \/ recOutcome.kind # "pending")
    => /\ recStream # "live"
       /\ mediaRecorder = "none"
       /\ recContext # "running"

(***************************************************************************)
(* A recorder started again during the settle delay of its stop.           *)
(***************************************************************************)
\* the stream and the context of the session that was stopped
FirstStream == IF oldStream # "none" THEN oldStream ELSE recStream
FirstContext == IF oldContext # "none" THEN oldContext ELSE recContext

\* C27: when the timer of stopRecording fires after startRecording was
\* called again, the promise resolves with the samples delivered between the
\* first start and the stop, the stopped session's stream and context are
\* released, and the stream, context and buffer of a second session that is
\* recording are as they were.
C27_StopSettlesItsOwnSession ==
  [][ (rpc = "settling" /\ rpc' = "settled" /\ rpc2 # "none")
        => /\ DeliveredDuring # <<>>
                => /\ recOutcome'.kind = "resolve"
                   /\ recOutcome'.bytes = ConvertToWAV(DeliveredDuring, sampleRate).bytes
           /\ FirstStream' = "released"
           /\ FirstContext' = "closed"
           /\ rpc2 = "recording"
                => /\ recStream' = recStream
                   /\ recContext' = recContext
                   /\ audioBuffer' = audioBuffer
    ]_vars


====
